---- MODULE Spec2Model ----
(***************************************************************************)
(* A model of jsondb (github.com/urusofam/jsondb): the storage backends    *)
(* (package storage), the B-tree index (package index), the query parser   *)
(* and executor (package query) and the database API (package api).        *)
(*                                                                         *)
(* Specifications:                                                         *)
(*   Spec        one collection over one backend, API calls run one at a   *)
(*               time (InsertDocument, UpdateDocument, ...).               *)
(*   SpecStorage one backend driven directly through the Storage interface *)
(*               (Save, Get, Delete, List), calls run one at a time.       *)
(*   SpecLock    goroutines calling one backend concurrently, each call    *)
(*               broken into its lock and data steps (sync.RWMutex).       *)
(*   SpecDB      the registry: CreateCollection, GetCollection,            *)
(*               DropCollection, Query and inserts into the collections.   *)
(*   SpecQuery   QueryExecutor.Execute over one backend.                   *)
(*   SpecColl    goroutines calling the methods of one collection and      *)
(*               DB.Query concurrently (Collection.Mutex).                 *)
(*   SpecCompare the two comparisons of values: QueryExecutor.compare and  *)
(*               the index's compare, on the same values, and              *)
(*               evalCondition on one leaf.                                *)
(*   SpecParse   QueryParser.parseCondition on the text of a WHERE clause. *)
(*   SpecIndex   one BTreeIndex driven directly through Add and Remove.    *)
(*   SpecApi     goroutines calling DB and Collection concurrently over    *)
(*               MemoryStorage, under the three mutexes, with fairness.    *)
(*   SpecShare   documents as references to Go maps: what a caller's       *)
(*               assignment to a returned document's map does.             *)
(*   SpecCache   two FileStorage values, with and without the cache, given *)
(*               the same calls and the same failing disk steps.           *)
(***************************************************************************)
EXTENDS Integers, Sequences, FiniteSets, TLC

VARIABLES
    st,       \* the backend: MemoryStorage or FileStorage (Docs / Files, Cache, UseCache)
    indexes,  \* Collection.Indexes: field name -> BTreeIndex
    ret,      \* the last call and what it returned
    live,     \* history: id -> the document of the last successful save not followed by a delete
    pc,       \* SpecLock: each goroutine's position
    rw,       \* SpecLock: the backend's sync.RWMutex
    loc,      \* SpecLock: each goroutine's locals (id, files left to list, the lock holds it has)
    cmu,      \* SpecColl: Collection.Mutex
    dmu,      \* SpecApi: DB.Mutex
    db,       \* SpecDB: DB.Collections and DB.Executor.DB
    heap,     \* SpecDB: the backends allocated so far; a Storage is a position in heap
    query,    \* the last Query executed
    results   \* the rows it returned

vars == <<st, indexes, ret, live, pc, rw, loc, cmu, dmu, db, heap, query, results>>

----------------------------------------------------------------------------
(* Bounds of the model. *)

NumIds == 2        \* document identifiers in play
MaxInt == 2        \* integer field values 1..MaxInt
NumFields == 1     \* content fields in play
MaxOrder == 1      \* order parameters 1..MaxOrder given to CreateIndex
NumThreads == 2    \* goroutines of SpecLock

NumQueryIds == 3   \* documents of SpecQuery
MaxWindow == 2     \* LIMIT 0..MaxWindow and OFFSET 0..MaxWindow + 1 of SpecQuery

NumColls == 2      \* collection names of SpecDB
MaxBackends == 2   \* backends allocated in SpecDB
MaxStack == 4      \* nested calls of parseCondition that fit the goroutine's stack

IdNames == <<"d1", "d2", "d3", "d4">>
FieldNames == <<"f", "g", "h">>

IDs == {IdNames[i] : i \in 1..NumIds}
Fields == {FieldNames[i] : i \in 1..NumFields}
Orders == 1..MaxOrder
Threads == 1..NumThreads

----------------------------------------------------------------------------
(* Finite maps (Go map[K]V) and sequences. *)

EmptyMap == [x \in {} |-> TRUE]

Put(m, k, v) == [x \in (DOMAIN m) \cup {k} |-> IF x = k THEN v ELSE m[x]]

Del(m, k) == [x \in (DOMAIN m) \ {k} |-> m[x]]

Has(m, k) == k \in DOMAIN m

Range(s) == {s[i] : i \in DOMAIN s}

\* every ordering of the elements of S (a Go map's iteration order is not fixed)
Orderings(S) == {s \in [1..Cardinality(S) -> S] : Range(s) = S}

\* s with x inserted so that it becomes element number i (1-based)
InsertAt(s, i, x) == SubSeq(s, 1, i - 1) \o <<x>> \o SubSeq(s, i, Len(s))

\* s without element number i
RemoveAt(s, i) == SubSeq(s, 1, i - 1) \o SubSeq(s, i + 1, Len(s))

----------------------------------------------------------------------------
(* Field values: interface{} holding a string, an int, a float64 or a      *)
(* bool.  A string is its sequence of character codes; a float64 is a      *)
(* whole number n, plus one half when h is set (enough to tell 3 from 3.5).*)
(* Every value is a record of the same shape, t naming the dynamic type.   *)

IntV(n) == [t |-> "int", n |-> n, h |-> FALSE, s |-> <<>>, b |-> FALSE]
FloatV(n, h) == [t |-> "float64", n |-> n, h |-> h, s |-> <<>>, b |-> FALSE]
StrV(s) == [t |-> "string", n |-> 0, h |-> FALSE, s |-> s, b |-> FALSE]
BoolV(b) == [t |-> "bool", n |-> 0, h |-> FALSE, s |-> <<>>, b |-> b]
\* a JSON number on disk
NumJ(n, h) == [t |-> "number", n |-> n, h |-> h, s |-> <<>>, b |-> FALSE]

\* the values the callers of the Collection API put in documents and search for
InputValues == {IntV(n) : n \in 1..MaxInt}

\* the values of the documents handed to a backend directly
StorageValues == InputValues \cup {StrV(<<1>>), BoolV(TRUE)}

\* Go's < on strings: bytewise lexicographic
RECURSIVE StrLess(_, _)
StrLess(a, b) ==
    IF Len(b) = 0 THEN FALSE
    ELSE IF Len(a) = 0 THEN TRUE
    ELSE IF a[1] # b[1] THEN a[1] < b[1]
    ELSE StrLess(Tail(a), Tail(b))

\* < on float64 (and on an int converted with float64(v))
NumLess(a, b) == a.n < b.n \/ (a.n = b.n /\ ~a.h /\ b.h)

Sign(lt, gt) == IF lt THEN -1 ELSE IF gt THEN 1 ELSE 0

\* index.compare
compare(a, b) ==
    CASE a.t = "string" /\ b.t = "string" -> Sign(StrLess(a.s, b.s), StrLess(b.s, a.s))
      [] a.t = "float64" /\ b.t \in {"float64", "int"} -> Sign(NumLess(a, b), NumLess(b, a))
      [] a.t = "int" /\ b.t \in {"int", "float64"} -> Sign(NumLess(a, b), NumLess(b, a))
      [] a.t = "bool" /\ b.t = "bool" -> Sign(~a.b /\ b.b, a.b /\ ~b.b)
      [] OTHER -> 0

----------------------------------------------------------------------------
(* Documents and their JSON form (encoding/json). *)

Doc(id, content) == [ID |-> id, Content |-> content]

Contents == UNION {[D -> InputValues] : D \in SUBSET Fields}

InputDocs == {Doc(id, c) : id \in IDs, c \in Contents}

StorageDocs == {Doc(id, c) : id \in IDs, c \in UNION {[D -> StorageValues] : D \in SUBSET Fields}}

\* json.Marshal of a value: an int and a float64 both become a JSON number
MarshalValue(v) == IF v.t \in {"int", "float64"} THEN NumJ(v.n, v.h) ELSE v

\* json.Unmarshal into interface{}: every JSON number becomes a float64
UnmarshalValue(j) == IF j.t = "number" THEN FloatV(j.n, j.h) ELSE j

Marshal(doc) == Doc(doc.ID, [k \in DOMAIN doc.Content |-> MarshalValue(doc.Content[k])])

Unmarshal(data) == Doc(data.ID, [k \in DOMAIN data.Content |-> UnmarshalValue(data.Content[k])])

----------------------------------------------------------------------------
(* package storage.  A backend is a record: kind tells MemoryStorage from   *)
(* FileStorage; Docs is MemoryStorage.Docs; Files is the directory          *)
(* FileStorage.Dir (identifier -> the JSON document in <id>.json); Cache    *)
(* and UseCache are FileStorage's.  Every operation returns the backend     *)
(* after the call (s), the error ("" for nil) and the document(s).          *)
(* A disk step of FileStorage fails when the caller of the operator says so *)
(* (wfail: os.WriteFile / os.Remove, rfail: os.ReadFile, dirFail:           *)
(* os.ReadDir); a failed step leaves the file as it was.                    *)

NoDoc == Doc("", EmptyMap)

NewMemoryStorage ==
    [kind |-> "memory", UseCache |-> FALSE, Docs |-> EmptyMap, Files |-> EmptyMap,
     Cache |-> EmptyMap]

\* dir may already hold the files of an earlier run
NewFileStorage(dir, useCache) ==
    [kind |-> "file", UseCache |-> useCache, Docs |-> EmptyMap, Files |-> dir,
     Cache |-> EmptyMap]

\* MemoryStorage.Save that keeps the stored document when the identifier is taken
MemoryStorage_Save_KeepOld(s, doc) ==
    [s |-> IF Has(s.Docs, doc.ID) THEN s ELSE [s EXCEPT !.Docs = Put(s.Docs, doc.ID, doc)],
     err |-> ""]

MemoryStorage_Save(s, doc) ==
    [s |-> [s EXCEPT !.Docs = Put(s.Docs, doc.ID, doc)], err |-> ""]

MemoryStorage_Get(s, id) ==
    IF ~Has(s.Docs, id)
    THEN [s |-> s, err |-> "notfound", doc |-> NoDoc]
    ELSE [s |-> s, err |-> "", doc |-> s.Docs[id]]

MemoryStorage_Delete(s, id) ==
    [s |-> [s EXCEPT !.Docs = Del(s.Docs, id)], err |-> ""]

\* ord: the order in which range visits the map
MemoryStorage_List(s, ord) ==
    LET ids == SelectSeq(ord, LAMBDA id : Has(s.Docs, id))
    IN  [s |-> s, err |-> "", docs |-> [i \in 1..Len(ids) |-> s.Docs[ids[i]]]]

\* FileStorage.Save with the cache updated before the disk step is known to have succeeded
FileStorage_Save_CacheFirst(s, doc, wfail) ==
    LET cached == IF s.UseCache THEN [s EXCEPT !.Cache = Put(s.Cache, doc.ID, doc)] ELSE s
    IN  IF wfail
        THEN [s |-> cached, err |-> "io"]
        ELSE [s |-> [cached EXCEPT !.Files = Put(s.Files, doc.ID, Marshal(doc))], err |-> ""]

FileStorage_Save(s, doc, wfail) ==
    IF wfail
    THEN [s |-> s, err |-> "io"]
    ELSE LET written == [s EXCEPT !.Files = Put(s.Files, doc.ID, Marshal(doc))]
         IN  [s |-> IF s.UseCache
                    THEN [written EXCEPT !.Cache = Put(s.Cache, doc.ID, doc)]
                    ELSE written,
              err |-> ""]

FileStorage_Get(s, id, rfail) ==
    IF s.UseCache /\ Has(s.Cache, id)
    THEN [s |-> s, err |-> "", doc |-> s.Cache[id]]
    ELSE IF ~Has(s.Files, id)
    THEN [s |-> s, err |-> "notfound", doc |-> NoDoc]
    ELSE IF rfail
    THEN [s |-> s, err |-> "io", doc |-> NoDoc]
    ELSE LET doc == Unmarshal(s.Files[id])
         IN  [s |-> IF s.UseCache THEN [s EXCEPT !.Cache = Put(s.Cache, id, doc)] ELSE s,
              err |-> "", doc |-> doc]

FileStorage_Delete(s, id, wfail) ==
    IF ~Has(s.Files, id)
    THEN [s |-> s, err |-> "notfound"]
    ELSE IF wfail
    THEN [s |-> s, err |-> "io"]
    ELSE LET removed == [s EXCEPT !.Files = Del(s.Files, id)]
         IN  [s |-> IF s.UseCache
                    THEN [removed EXCEPT !.Cache = Del(s.Cache, id)]
                    ELSE removed,
              err |-> ""]

\* a loop of List that gives up at the first entry it cannot load
RECURSIVE FileStorage_ListFrom_Strict(_, _, _, _)
FileStorage_ListFrom_Strict(s, files, rfails, docs) ==
    IF files = <<>>
    THEN [s |-> s, err |-> "", docs |-> docs]
    ELSE LET got == FileStorage_Get(s, Head(files), Head(files) \in rfails)
         IN  IF got.err # "" THEN [s |-> got.s, err |-> got.err, docs |-> docs]
             ELSE FileStorage_ListFrom_Strict(got.s, Tail(files), rfails,
                                              Append(docs, got.doc))

\* the loop of FileStorage.List over the directory entries still to visit
RECURSIVE FileStorage_ListFrom(_, _, _, _)
FileStorage_ListFrom(s, files, rfails, docs) ==
    IF files = <<>>
    THEN [s |-> s, err |-> "", docs |-> docs]
    ELSE LET got == FileStorage_Get(s, Head(files), Head(files) \in rfails)
         IN  FileStorage_ListFrom(got.s, Tail(files), rfails,
                                  IF got.err # "" THEN docs ELSE Append(docs, got.doc))

\* os.ReadDir returns the entries sorted by file name
ReadDir(s) == SelectSeq(IdNames, LAMBDA id : Has(s.Files, id))

FileStorage_List(s, rfails, dirFail) ==
    IF dirFail
    THEN [s |-> s, err |-> "io", docs |-> <<>>]
    ELSE FileStorage_ListFrom(s, ReadDir(s), rfails, <<>>)

\* the Storage interface, dispatched on the dynamic type
Storage_Save(s, doc, wfail) ==
    IF s.kind = "memory" THEN MemoryStorage_Save(s, doc) ELSE FileStorage_Save(s, doc, wfail)

Storage_Get(s, id, rfail) ==
    IF s.kind = "memory" THEN MemoryStorage_Get(s, id) ELSE FileStorage_Get(s, id, rfail)

Storage_Delete(s, id, wfail) ==
    IF s.kind = "memory" THEN MemoryStorage_Delete(s, id) ELSE FileStorage_Delete(s, id, wfail)

Storage_List(s, ord, rfails, dirFail) ==
    IF s.kind = "memory" THEN MemoryStorage_List(s, ord) ELSE FileStorage_List(s, rfails, dirFail)

----------------------------------------------------------------------------
(* package index.  A BTreeNode is a record (Keys, Values, Children, IsLeaf);*)
(* a BTreeIndex is a record (Root, Field, Order, DocIDs).  Positions are    *)
(* 1-based here and 0-based in the source.                                  *)

NewBTreeIndex(field, order) ==
    [Root |-> [Keys |-> <<>>, Values |-> <<>>, Children |-> <<>>, IsLeaf |-> TRUE],
     Field |-> field, Order |-> order, DocIDs |-> EmptyMap]

getNestedValue(content, field) ==
    [ok |-> Has(content, field),
     val |-> IF Has(content, field) THEN content[field] ELSE IntV(0)]

\* the loop "for pos < len(node.Keys) && compare(node.Keys[pos], key) < 0 { pos++ }"
KeyPos(node, key) ==
    LET stop == {i \in 1..Len(node.Keys) : compare(node.Keys[i], key) >= 0}
    IN  IF stop = {} THEN Len(node.Keys) + 1
        ELSE CHOOSE i \in stop : \A j \in stop : i <= j

KeyFound(node, key, pos) == pos <= Len(node.Keys) /\ compare(node.Keys[pos], key) = 0

\* BTreeIndex.search
RECURSIVE search(_, _)
search(node, key) ==
    LET pos == KeyPos(node, key)
    IN  IF KeyFound(node, key, pos) THEN node.Values[pos]
        ELSE IF node.IsLeaf THEN <<>>
        ELSE search(node.Children[IF pos > Len(node.Children)
                                  THEN Len(node.Children) ELSE pos], key)

\* BTreeIndex.Search
BTreeIndex_Search(bt, field, value) ==
    IF field # bt.Field
    THEN [err |-> "field", ids |-> <<>>]
    ELSE [err |-> "", ids |-> search(bt.Root, value)]

\* BTreeIndex.splitIfNeeded: the node after the call (the source splits nothing)
splitIfNeeded(bt, node) ==
    IF Len(node.Keys) <= bt.Order THEN node ELSE node

\* BTreeIndex.insert that puts a new key of a leaf after the keys it has
RECURSIVE insert_AtEnd(_, _, _, _)
insert_AtEnd(bt, node, key, docIDs) ==
    LET pos == KeyPos(node, key)
    IN  IF KeyFound(node, key, pos)
        THEN [node EXCEPT !.Values[pos] = docIDs]
        ELSE IF node.IsLeaf
        THEN splitIfNeeded(bt, [node EXCEPT !.Keys = Append(node.Keys, key),
                                            !.Values = Append(node.Values, docIDs)])
        ELSE LET childPos == IF pos = Len(node.Keys) + 1 THEN Len(node.Children) ELSE pos
             IN  [node EXCEPT !.Children[childPos] =
                                  insert_AtEnd(bt, node.Children[childPos], key, docIDs)]

\* BTreeIndex.insert: the node after the call
RECURSIVE insert(_, _, _, _)
insert(bt, node, key, docIDs) ==
    LET pos == KeyPos(node, key)
    IN  IF KeyFound(node, key, pos)
        THEN [node EXCEPT !.Values[pos] = docIDs]
        ELSE IF node.IsLeaf
        THEN splitIfNeeded(bt, [node EXCEPT !.Keys = InsertAt(node.Keys, pos, key),
                                            !.Values = InsertAt(node.Values, pos, docIDs)])
        ELSE LET childPos == IF pos = Len(node.Keys) + 1 THEN Len(node.Children) ELSE pos
             IN  [node EXCEPT !.Children[childPos] =
                                  insert(bt, node.Children[childPos], key, docIDs)]

\* BTreeIndex.remove: the node after the call
RECURSIVE remove(_, _)
remove(node, key) ==
    LET pos == KeyPos(node, key)
    IN  IF KeyFound(node, key, pos)
        THEN [node EXCEPT !.Keys = RemoveAt(node.Keys, pos),
                          !.Values = RemoveAt(node.Values, pos)]
        ELSE IF node.IsLeaf THEN node
        ELSE LET childPos == IF pos > Len(node.Children) THEN Len(node.Children) ELSE pos
             IN  [node EXCEPT !.Children[childPos] = remove(node.Children[childPos], key)]

\* BTreeIndex.Add that appends the identifier without looking for it
BTreeIndex_Add_AlwaysAppend(bt, doc) ==
    LET got == getNestedValue(doc.Content, bt.Field)
        ids == BTreeIndex_Search(bt, bt.Field, got.val).ids
    IN  IF ~got.ok THEN bt
        ELSE [bt EXCEPT !.DocIDs = Put(bt.DocIDs, doc.ID, got.val),
                        !.Root = insert(bt, bt.Root, got.val, Append(ids, doc.ID))]

\* BTreeIndex.Add: the index after the call (Add always returns nil)
BTreeIndex_Add(bt, doc) ==
    LET got == getNestedValue(doc.Content, bt.Field)
        ids == BTreeIndex_Search(bt, bt.Field, got.val).ids
        newIDs == IF doc.ID \in Range(ids) THEN ids ELSE Append(ids, doc.ID)
    IN  IF ~got.ok THEN bt
        ELSE [bt EXCEPT !.DocIDs = Put(bt.DocIDs, doc.ID, got.val),
                        !.Root = insert(bt, bt.Root, got.val, newIDs)]

\* BTreeIndex.Remove: the index after the call (Remove always returns nil)
BTreeIndex_Remove(bt, id) ==
    IF ~Has(bt.DocIDs, id) THEN bt
    ELSE LET value == bt.DocIDs[id]
             ids == BTreeIndex_Search(bt, bt.Field, value).ids
             newIDs == SelectSeq(ids, LAMBDA docID : docID # id)
         IN  [bt EXCEPT !.DocIDs = Del(bt.DocIDs, id),
                        !.Root = IF Len(newIDs) > 0
                                 THEN insert(bt, bt.Root, value, newIDs)
                                 ELSE remove(bt.Root, value)]

----------------------------------------------------------------------------
(* package api: Collection.  A collection is a record (Storage, Indexes);   *)
(* every operation returns the collection after the call (c) and the error. *)
(* Each operation holds Collection.Mutex from its first to its last step,   *)
(* so under Spec it is one atomic step.  Index Add and Remove never return  *)
(* an error, so the order in which range visits c.Indexes does not matter.  *)

AddAll(idxs, doc) == [f \in DOMAIN idxs |-> BTreeIndex_Add(idxs[f], doc)]

RemoveAll(idxs, id) == [f \in DOMAIN idxs |-> BTreeIndex_Remove(idxs[f], id)]

\* Collection.InsertDocument without the check of the identifier
Collection_InsertDocument_NoIdCheck(c, doc, wfail) ==
    LET sv == Storage_Save(c.Storage, doc, wfail)
    IN  IF sv.err # ""
        THEN [c |-> [c EXCEPT !.Storage = sv.s], err |-> sv.err]
        ELSE [c |-> [Storage |-> sv.s, Indexes |-> AddAll(c.Indexes, doc)], err |-> ""]

Collection_InsertDocument(c, doc, wfail) ==
    IF doc.ID = "" THEN [c |-> c, err |-> "invalid"]
    ELSE LET sv == Storage_Save(c.Storage, doc, wfail)
         IN  IF sv.err # ""
             THEN [c |-> [c EXCEPT !.Storage = sv.s], err |-> sv.err]
             ELSE [c |-> [Storage |-> sv.s, Indexes |-> AddAll(c.Indexes, doc)], err |-> ""]

Collection_GetDocument(c, id, rfail) ==
    LET got == Storage_Get(c.Storage, id, rfail)
    IN  [c |-> [c EXCEPT !.Storage = got.s], err |-> got.err, doc |-> got.doc]

\* Collection.UpdateDocument that fails when the prior version cannot be fetched
Collection_UpdateDocument_RequireStored(c, doc, rfail, wfail) ==
    IF doc.ID = "" THEN [c |-> c, err |-> "invalid"]
    ELSE LET old == Storage_Get(c.Storage, doc.ID, rfail)
             removed == RemoveAll(c.Indexes, doc.ID)
             sv == Storage_Save(old.s, doc, wfail)
         IN  IF old.err # "" THEN [c |-> [c EXCEPT !.Storage = old.s], err |-> old.err]
             ELSE IF sv.err # ""
             THEN [c |-> [Storage |-> sv.s, Indexes |-> removed], err |-> sv.err]
             ELSE [c |-> [Storage |-> sv.s, Indexes |-> AddAll(removed, doc)], err |-> ""]

Collection_UpdateDocument(c, doc, rfail, wfail) ==
    IF doc.ID = "" THEN [c |-> c, err |-> "invalid"]
    ELSE LET old == Storage_Get(c.Storage, doc.ID, rfail)
             removed == IF old.err = "" THEN RemoveAll(c.Indexes, old.doc.ID) ELSE c.Indexes
             sv == Storage_Save(old.s, doc, wfail)
         IN  IF sv.err # ""
             THEN [c |-> [Storage |-> sv.s, Indexes |-> removed], err |-> sv.err]
             ELSE [c |-> [Storage |-> sv.s, Indexes |-> AddAll(removed, doc)], err |-> ""]

\* Collection.DeleteDocument that clears the indexes and leaves the backend alone
Collection_DeleteDocument_IndexOnly(c, id, wfail) ==
    [c |-> [c EXCEPT !.Indexes = RemoveAll(c.Indexes, id)], err |-> ""]

Collection_DeleteDocument(c, id, wfail) ==
    LET del == Storage_Delete(c.Storage, id, wfail)
    IN  [c |-> [Storage |-> del.s, Indexes |-> RemoveAll(c.Indexes, id)], err |-> del.err]

\* the loop of CreateIndex over the listed documents
RECURSIVE AddDocs(_, _)
AddDocs(bt, docs) ==
    IF docs = <<>> THEN bt ELSE AddDocs(BTreeIndex_Add(bt, Head(docs)), Tail(docs))

\* Collection.CreateIndex that registers the new index without adding the documents
Collection_CreateIndex_NoScan(c, field, indexType, order, ord, rfails, dirFail) ==
    IF Has(c.Indexes, field) THEN [c |-> c, err |-> "exists"]
    ELSE IF indexType # "btree" THEN [c |-> c, err |-> "invalid"]
    ELSE [c |-> [c EXCEPT !.Indexes = Put(c.Indexes, field, NewBTreeIndex(field, order))],
          err |-> ""]

Collection_CreateIndex(c, field, indexType, order, ord, rfails, dirFail) ==
    IF Has(c.Indexes, field) THEN [c |-> c, err |-> "exists"]
    ELSE IF indexType # "btree" THEN [c |-> c, err |-> "invalid"]
    ELSE LET idx == NewBTreeIndex(field, order)
             ls == Storage_List(c.Storage, ord, rfails, dirFail)
         IN  IF ls.err # ""
             THEN [c |-> [Storage |-> ls.s, Indexes |-> Put(c.Indexes, field, idx)],
                   err |-> ls.err]
             ELSE [c |-> [Storage |-> ls.s,
                          Indexes |-> Put(c.Indexes, field, AddDocs(idx, ls.docs))],
                   err |-> ""]

Collection_DropIndex(c, field) ==
    IF ~Has(c.Indexes, field) THEN [c |-> c, err |-> "notfound"]
    ELSE [c |-> [c EXCEPT !.Indexes = Del(c.Indexes, field)], err |-> ""]

\* the loop of FindByIndex over the identifiers the index returned
RECURSIVE GetEach(_, _, _, _)
GetEach(s, ids, rfails, docs) ==
    IF ids = <<>> THEN [s |-> s, docs |-> docs]
    ELSE LET got == Storage_Get(s, Head(ids), Head(ids) \in rfails)
         IN  GetEach(got.s, Tail(ids), rfails,
                     IF got.err # "" THEN docs ELSE Append(docs, got.doc))

\* Collection.FindByIndex that returns the error of a Get instead of skipping the identifier
Collection_FindByIndex_FailOnGet(c, field, value, rfails) ==
    IF ~Has(c.Indexes, field) THEN [c |-> c, err |-> "notfound", docs |-> <<>>]
    ELSE LET found == BTreeIndex_Search(c.Indexes[field], field, value)
             each == GetEach(c.Storage, found.ids, rfails, <<>>)
         IN  IF found.err # "" THEN [c |-> c, err |-> found.err, docs |-> <<>>]
             ELSE IF Len(each.docs) < Len(found.ids)
             THEN [c |-> [c EXCEPT !.Storage = each.s], err |-> "notfound", docs |-> <<>>]
             ELSE [c |-> [c EXCEPT !.Storage = each.s], err |-> "", docs |-> each.docs]

Collection_FindByIndex(c, field, value, rfails) ==
    IF ~Has(c.Indexes, field) THEN [c |-> c, err |-> "notfound", docs |-> <<>>]
    ELSE LET found == BTreeIndex_Search(c.Indexes[field], field, value)
             each == GetEach(c.Storage, found.ids, rfails, <<>>)
         IN  IF found.err # "" THEN [c |-> c, err |-> found.err, docs |-> <<>>]
             ELSE [c |-> [c EXCEPT !.Storage = each.s], err |-> "", docs |-> each.docs]

Collection_ListDocuments(c, ord, rfails, dirFail) ==
    LET ls == Storage_List(c.Storage, ord, rfails, dirFail)
    IN  [c |-> [c EXCEPT !.Storage = ls.s], err |-> ls.err, docs |-> ls.docs]

Collection_Size(c, ord, rfails, dirFail) ==
    LET ls == Storage_List(c.Storage, ord, rfails, dirFail)
    IN  [c |-> [c EXCEPT !.Storage = ls.s], err |-> ls.err,
         n |-> IF ls.err # "" THEN 0 ELSE Len(ls.docs)]

----------------------------------------------------------------------------
(* package query.  A Query is a record (Select, From, Where, Limit,         *)
(* Offset); Where is a pointer: <<>> for nil, <<cond>> otherwise.  A        *)
(* Condition is a record (Left, Operator, Right, ChildOp, Children); Left   *)
(* is an interface{}: <<>> for nil, <<name>> for a string.  A result row    *)
(* is a map from field names to values.                                     *)

NilV == [t |-> "nil", n |-> 0, h |-> FALSE, s |-> <<>>, b |-> FALSE]

\* a document identifier as a string value: the name IdNames[i] is the string <<i>>
IdValue(id) ==
    IF \E i \in 1..Len(IdNames) : IdNames[i] = id
    THEN StrV(<<CHOOSE i \in 1..Len(IdNames) : IdNames[i] = id>>)
    ELSE StrV(<<>>)

LeafCond(left, op, right) ==
    [Left |-> <<left>>, Operator |-> op, Right |-> right, ChildOp |-> "", Children |-> <<>>]

NodeCond(childOp, children) ==
    [Left |-> <<>>, Operator |-> "", Right |-> NilV, ChildOp |-> childOp, Children |-> children]

Operators == {">=", "<=", "!=", ">", "<", "="}

\* int(b) of a float64, or b itself when it is an int: Go truncates toward zero
Trunc(b) == IF b.h /\ b.n < 0 THEN b.n + 1 ELSE b.n

\* QueryExecutor.compare: an int is compared with int(b) of a float64 (b truncated),
\* a float64 with float64(b) of an int; any other pair of types gives 0
QueryExecutor_compare(a, b) ==
    CASE a.t = "string" /\ b.t = "string" -> Sign(StrLess(a.s, b.s), StrLess(b.s, a.s))
      [] a.t = "float64" /\ b.t \in {"float64", "int"} -> Sign(NumLess(a, b), NumLess(b, a))
      [] a.t = "int" /\ b.t \in {"int", "float64"} -> Sign(a.n < Trunc(b), a.n > Trunc(b))
      [] a.t = "bool" /\ b.t = "bool" -> Sign(~a.b /\ b.b, a.b /\ ~b.b)
      [] OTHER -> 0

\* equals that holds for identical values only
QueryExecutor_equals_Identical(a, b) == a = b

QueryExecutor_equals(a, b) == QueryExecutor_compare(a, b) = 0

QueryExecutor_compareValues(left, op, right) ==
    CASE op = "=" -> QueryExecutor_equals(left, right)
      [] op = "!=" -> ~QueryExecutor_equals(left, right)
      [] op = ">" -> QueryExecutor_compare(left, right) > 0
      [] op = ">=" -> QueryExecutor_compare(left, right) >= 0
      [] op = "<" -> QueryExecutor_compare(left, right) < 0
      [] op = "<=" -> QueryExecutor_compare(left, right) <= 0
      [] OTHER -> FALSE

\* the leaf evaluated with nil for the value of a field the document lacks
evalLeaf_MissingAsNil(doc, cond) ==
    IF cond.Left = <<>> THEN FALSE
    ELSE LET fieldName == cond.Left[1]
         IN  IF fieldName = "_id"
             THEN QueryExecutor_compareValues(IdValue(doc.ID), cond.Operator, cond.Right)
             ELSE LET got == getNestedValue(doc.Content, fieldName)
                  IN  QueryExecutor_compareValues(IF got.ok THEN got.val ELSE NilV,
                                                  cond.Operator, cond.Right)

\* evalCondition below its first branch: the condition taken as a leaf
evalLeaf(doc, cond) ==
    IF cond.Left = <<>> THEN FALSE
    ELSE LET fieldName == cond.Left[1]
         IN  IF fieldName = "_id"
             THEN QueryExecutor_compareValues(IdValue(doc.ID), cond.Operator, cond.Right)
             ELSE LET got == getNestedValue(doc.Content, fieldName)
                  IN  IF ~got.ok THEN FALSE
                      ELSE QueryExecutor_compareValues(got.val, cond.Operator, cond.Right)

\* evalCondition that combines the children of every node as an AND node
RECURSIVE evalCondition_AlwaysAnd(_, _)
evalCondition_AlwaysAnd(doc, cond) ==
    IF Len(cond.Children) > 0 /\ cond.ChildOp \in {"AND", "OR"}
    THEN \A i \in 1..Len(cond.Children) : evalCondition_AlwaysAnd(doc, cond.Children[i])
    ELSE evalLeaf(doc, cond)

\* QueryExecutor.evalCondition: with children, every child is evaluated and the
\* results are combined by ChildOp; a condition without children, or with another
\* ChildOp, is evaluated as a leaf
RECURSIVE evalCondition(_, _)
evalCondition(doc, cond) ==
    LET childResults == [i \in 1..Len(cond.Children) |-> evalCondition(doc, cond.Children[i])]
    IN  IF Len(cond.Children) > 0 /\ cond.ChildOp = "AND"
        THEN ~\E i \in 1..Len(childResults) : ~childResults[i]
        ELSE IF Len(cond.Children) > 0 /\ cond.ChildOp = "OR"
        THEN \E i \in 1..Len(childResults) : childResults[i]
        ELSE evalLeaf(doc, cond)

\* Execute, the explicit field list: the row after the loop over the fields left
RECURSIVE selectFields(_, _, _)
selectFields(doc, fields, result) ==
    IF fields = <<>> THEN result
    ELSE LET field == Head(fields)
             got == getNestedValue(doc.Content, field)
         IN  selectFields(doc, Tail(fields),
                 IF field = "_id" THEN Put(result, "_id", IdValue(doc.ID))
                 ELSE IF got.ok THEN Put(result, field, got.val)
                 ELSE result)

\* Execute, the wildcard: the row after the loop over the content keys left
RECURSIVE copyContent(_, _, _)
copyContent(doc, keys, result) ==
    IF keys = {} THEN result
    ELSE LET k == CHOOSE x \in keys : TRUE
         IN  copyContent(doc, keys \ {k}, Put(result, k, doc.Content[k]))

\* the row with a nil entry for every named field the document lacks
projectRow_NilForMissing(doc, q) ==
    IF Len(q.Select) = 1 /\ q.Select[1] = "*"
    THEN Put(copyContent(doc, DOMAIN doc.Content, EmptyMap), "_id", IdValue(doc.ID))
    ELSE [k \in Range(q.Select) |->
             IF k = "_id" THEN IdValue(doc.ID)
             ELSE IF Has(doc.Content, k) THEN doc.Content[k] ELSE NilV]

\* Execute: the row of a document that passed the filter
projectRow(doc, q) ==
    IF Len(q.Select) = 1 /\ q.Select[1] = "*"
    THEN Put(copyContent(doc, DOMAIN doc.Content, EmptyMap), "_id", IdValue(doc.ID))
    ELSE selectFields(doc, q.Select, EmptyMap)

\* Execute: the loop over the listed documents
RECURSIVE filterAndProject(_, _, _)
filterAndProject(docs, q, rows) ==
    IF docs = <<>> THEN rows
    ELSE filterAndProject(Tail(docs), q,
             IF q.Where = <<>> \/ evalCondition(Head(docs), q.Where[1])
             THEN Append(rows, projectRow(Head(docs), q))
             ELSE rows)

\* Execute that truncates to LIMIT before it drops OFFSET rows
QueryExecutor_Execute_LimitFirst(DB, q, ord, rfails, dirFail) ==
    IF ~Has(DB, q.From) THEN [err |-> "notfound", rows |-> <<>>, DB |-> DB]
    ELSE LET ls == Storage_List(DB[q.From], ord, rfails, dirFail)
             after == [DB EXCEPT ![q.From] = ls.s]
             all == filterAndProject(ls.docs, q, <<>>)
             lim == IF q.Limit >= 0 /\ q.Limit < Len(all)
                    THEN SubSeq(all, 1, q.Limit) ELSE all
             off == IF q.Offset > 0 /\ q.Offset < Len(lim)
                    THEN SubSeq(lim, q.Offset + 1, Len(lim)) ELSE lim
         IN  IF ls.err # "" THEN [err |-> ls.err, rows |-> <<>>, DB |-> after]
             ELSE [err |-> "", rows |-> off, DB |-> after]

\* QueryExecutor.Execute over the collections DB (name -> backend): the error, the
\* rows and the backend after the call (a FileStorage fills its cache on List)
QueryExecutor_Execute(DB, q, ord, rfails, dirFail) ==
    IF ~Has(DB, q.From) THEN [err |-> "notfound", rows |-> <<>>, DB |-> DB]
    ELSE LET ls == Storage_List(DB[q.From], ord, rfails, dirFail)
             after == [DB EXCEPT ![q.From] = ls.s]
             all == filterAndProject(ls.docs, q, <<>>)
             off == IF q.Offset > 0 /\ q.Offset < Len(all)
                    THEN SubSeq(all, q.Offset + 1, Len(all)) ELSE all
             lim == IF q.Limit >= 0 /\ q.Limit < Len(off)
                    THEN SubSeq(off, 1, q.Limit) ELSE off
         IN  IF ls.err # "" THEN [err |-> ls.err, rows |-> <<>>, DB |-> after]
             ELSE [err |-> "", rows |-> lim, DB |-> after]

----------------------------------------------------------------------------
(* package query: QueryParser.parseCondition.  A text (Go string) is the    *)
(* sequence of its characters, each a one-character string.  The functions  *)
(* of package strings and strconv are modelled on the characters of         *)
(* Alphabet.  A call that never returns (unbounded recursion) ends the      *)
(* process when the goroutine's stack is exhausted: the error "overflow",   *)
(* reached here after MaxStack nested calls; a parse that returns nests at  *)
(* most three calls (AND node, OR node, leaf).  A slice expression out of   *)
(* range ends the process too: the error "panic".                           *)

LowerCase == <<"a", "b", "d", "e", "f", "l", "n", "o", "r", "s", "t", "u", "x">>

UpperCase == <<"A", "B", "D", "E", "F", "L", "N", "O", "R", "S", "T", "U", "X">>

Digits == <<"0", "1", "2", "3", "4", "5", "6", "7", "8", "9">>

Alphabet == LowerCase \o UpperCase \o Digits \o <<" ", "'", ".", "-", ">", "<", "=", "!">>

PosIn(seq, c) == IF \E i \in 1..Len(seq) : seq[i] = c
                 THEN CHOOSE i \in 1..Len(seq) : seq[i] = c ELSE 0

\* strings.ToUpper, strings.ToLower
ToUpper(s) == [i \in 1..Len(s) |->
                  IF PosIn(LowerCase, s[i]) > 0 THEN UpperCase[PosIn(LowerCase, s[i])] ELSE s[i]]

ToLower(s) == [i \in 1..Len(s) |->
                  IF PosIn(UpperCase, s[i]) > 0 THEN LowerCase[PosIn(UpperCase, s[i])] ELSE s[i]]

\* strings.Index, 1-based; 0 when sep does not occur
IndexOf(s, sep) ==
    LET at == {i \in 1..(Len(s) - Len(sep) + 1) : SubSeq(s, i, i + Len(sep) - 1) = sep}
    IN  IF at = {} THEN 0 ELSE CHOOSE i \in at : \A j \in at : i <= j

\* strings.Contains
Contains(s, sep) == IndexOf(s, sep) > 0

\* strings.Split with a non-empty separator
RECURSIVE Split(_, _)
Split(s, sep) ==
    LET i == IndexOf(s, sep)
    IN  IF i = 0 THEN <<s>>
        ELSE <<SubSeq(s, 1, i - 1)>> \o Split(SubSeq(s, i + Len(sep), Len(s)), sep)

\* strings.SplitN(s, sep, 2)
SplitN2(s, sep) ==
    LET i == IndexOf(s, sep)
    IN  IF i = 0 THEN <<s>>
        ELSE <<SubSeq(s, 1, i - 1), SubSeq(s, i + Len(sep), Len(s))>>

\* strings.TrimSpace
RECURSIVE TrimSpace(_)
TrimSpace(s) ==
    IF s = <<>> THEN s
    ELSE IF s[1] = " " THEN TrimSpace(Tail(s))
    ELSE IF s[Len(s)] = " " THEN TrimSpace(SubSeq(s, 1, Len(s) - 1))
    ELSE s

\* the Go string of a text, where the model names things by strings
RECURSIVE Join(_)
Join(s) == IF s = <<>> THEN "" ELSE s[1] \o Join(Tail(s))

\* the string value of a text: its character codes
TextValue(s) == StrV([i \in 1..Len(s) |-> PosIn(Alphabet, s[i])])

RECURSIVE DigitsValue(_)
DigitsValue(s) ==
    IF s = <<>> THEN 0
    ELSE 10 * DigitsValue(SubSeq(s, 1, Len(s) - 1)) + (PosIn(Digits, s[Len(s)]) - 1)

AllDigits(s) == \A i \in 1..Len(s) : PosIn(Digits, s[i]) > 0

\* strconv.Atoi: an optional sign and one digit or more
Atoi(s) ==
    LET signed == s # <<>> /\ s[1] = "-"
        body == IF signed THEN Tail(s) ELSE s
    IN  IF body = <<>> \/ ~AllDigits(body) THEN [err |-> "syntax", val |-> IntV(0)]
        ELSE [err |-> "",
              val |-> IntV(IF signed THEN 0 - DigitsValue(body) ELSE DigitsValue(body))]

\* strconv.ParseFloat on the decimals of the model: an optional sign, digits, a point
\* and nothing, 0 or 5 after it
ParseFloat(s) ==
    LET signed == s # <<>> /\ s[1] = "-"
        body == IF signed THEN Tail(s) ELSE s
        parts == SplitN2(body, <<".">>)
        whole == parts[1]
        frac == IF Len(parts) = 2 THEN parts[2] ELSE <<>>
        half == frac = <<"5">>
        n == DigitsValue(whole)
    IN  IF Len(parts) # 2 \/ ~AllDigits(whole) \/ frac \notin {<<>>, <<"0">>, <<"5">>}
           \/ (whole = <<>> /\ frac = <<>>)
        THEN [err |-> "syntax", val |-> FloatV(0, FALSE)]
        ELSE [err |-> "", val |-> IF ~signed THEN FloatV(n, half)
                                  ELSE IF half THEN FloatV(0 - n - 1, TRUE)
                                  ELSE FloatV(0 - n, FALSE)]

\* the texts of the six operators, in the order parseCondition tries them
LeafOps == <<<<">", "=">>, <<"<", "=">>, <<"!", "=">>, <<">">>, <<"<">>, <<"=">>>>

NoCond == NodeCond("", <<>>)

\* parseCondition: the right-hand literal
parseLiteral(right) ==
    IF right # <<>> /\ right[1] = "'" /\ right[Len(right)] = "'"
    THEN IF Len(right) < 2 THEN [err |-> "panic", val |-> NilV]
         ELSE [err |-> "", val |-> TextValue(SubSeq(right, 2, Len(right) - 1))]
    ELSE IF ToLower(right) \in {<<"t", "r", "u", "e">>, <<"f", "a", "l", "s", "e">>}
    THEN [err |-> "", val |-> BoolV(ToLower(right) = <<"t", "r", "u", "e">>)]
    ELSE IF Contains(right, <<".">>) THEN ParseFloat(right)
    ELSE Atoi(right)

\* parseCondition: the simple condition
parseLeaf(condStr) ==
    LET hit == {i \in 1..Len(LeafOps) : Contains(condStr, LeafOps[i])}
    IN  IF hit = {} THEN [err |-> "invalid", cond |-> NoCond]
        ELSE LET op == LeafOps[CHOOSE i \in hit : \A j \in hit : i <= j]
                 parts == SplitN2(condStr, op)
                 left == TrimSpace(parts[1])
                 right == TrimSpace(parts[2])
                 lit == parseLiteral(right)
             IN  IF lit.err # "" THEN [err |-> lit.err, cond |-> NoCond]
                 ELSE [err |-> "", cond |-> LeafCond(Join(left), Join(op), lit.val)]

RECURSIVE parseCondition(_, _)
RECURSIVE parseParts(_, _, _)

\* parseCondition: the loop over the parts; the first error ends it
parseParts(parts, conditions, stack) ==
    IF parts = <<>> THEN [err |-> "", conds |-> conditions]
    ELSE LET r == parseCondition(Head(parts), stack)
         IN  IF r.err # "" THEN [err |-> r.err, conds |-> <<>>]
             ELSE parseParts(Tail(parts), Append(conditions, r.cond), stack)

\* parseCondition with room for stack more nested calls
parseCondition(condStr, stack) ==
    IF stack = 0 THEN [err |-> "overflow", cond |-> NoCond]
    ELSE IF Contains(ToUpper(condStr), <<" ", "A", "N", "D", " ">>)
    THEN LET r == parseParts(Split(condStr, <<" ", "A", "N", "D", " ">>), <<>>, stack - 1)
         IN  IF r.err # "" THEN [err |-> r.err, cond |-> NoCond]
             ELSE [err |-> "", cond |-> NodeCond("AND", r.conds)]
    ELSE IF Contains(ToUpper(condStr), <<" ", "O", "R", " ">>)
    THEN LET r == parseParts(Split(condStr, <<" ", "O", "R", " ">>), <<>>, stack - 1)
         IN  IF r.err # "" THEN [err |-> r.err, cond |-> NoCond]
             ELSE [err |-> "", cond |-> NodeCond("OR", r.conds)]
    ELSE parseLeaf(condStr)

----------------------------------------------------------------------------
(* package api: DB.  The registry is a record: Collections maps a name to  *)
(* its Collection (Storage, Indexes), Executor is QueryExecutor.DB, which  *)
(* maps a name to a query.Collection (Storage).  A Storage is a pointer: a *)
(* position in the heap h of backends.  Every operation holds DB.Mutex     *)
(* from its first to its last step.  Query is given the structured query   *)
(* that Parse returned.                                                    *)

\* the query.Collection map that CreateCollection and DropCollection rebuild
ExecutorOf(colls) == [n \in DOMAIN colls |-> [Storage |-> colls[n].Storage]]

\* DB.CreateCollection that replaces a registered collection
DB_CreateCollection_Overwrite(d, name, storage) ==
    LET colls == Put(d.Collections, name, [Storage |-> storage, Indexes |-> EmptyMap])
    IN  [db |-> [Collections |-> colls, Executor |-> ExecutorOf(colls)], err |-> ""]

DB_CreateCollection(d, name, storage) ==
    IF Has(d.Collections, name) THEN [db |-> d, err |-> "exists"]
    ELSE LET colls == Put(d.Collections, name, [Storage |-> storage, Indexes |-> EmptyMap])
         IN  [db |-> [Collections |-> colls, Executor |-> ExecutorOf(colls)], err |-> ""]

DB_GetCollection(d, name) ==
    IF ~Has(d.Collections, name)
    THEN [err |-> "notfound", coll |-> [Storage |-> 0, Indexes |-> EmptyMap]]
    ELSE [err |-> "", coll |-> d.Collections[name]]

\* DB.DropCollection that leaves the executor as it was
DB_DropCollection_KeepExecutor(d, name) ==
    IF ~Has(d.Collections, name) THEN [db |-> d, err |-> "notfound"]
    ELSE [db |-> [d EXCEPT !.Collections = Del(d.Collections, name)], err |-> ""]

DB_DropCollection(d, name) ==
    IF ~Has(d.Collections, name) THEN [db |-> d, err |-> "notfound"]
    ELSE LET colls == Del(d.Collections, name)
         IN  [db |-> [Collections |-> colls, Executor |-> ExecutorOf(colls)], err |-> ""]

\* DB.Query that answers an equality on an indexed field from the collection's index
DB_Query_ViaIndex(d, h, q, ord, rfails, dirFail) ==
    LET r == QueryExecutor_Execute([n \in DOMAIN d.Executor |-> h[d.Executor[n].Storage]],
                                   q, ord, rfails, dirFail)
        indexed == /\ Has(d.Executor, q.From) /\ Has(d.Collections, q.From)
                   /\ q.Where # <<>> /\ q.Where[1].Left # <<>>
                   /\ q.Where[1].Operator = "="
                   /\ Has(d.Collections[q.From].Indexes, q.Where[1].Left[1])
        found == Collection_FindByIndex([Storage |-> h[d.Collections[q.From].Storage],
                                         Indexes |-> d.Collections[q.From].Indexes],
                                        q.Where[1].Left[1], q.Where[1].Right, rfails)
    IN  IF indexed
        THEN [err |-> "", rows |-> filterAndProject(found.docs, [q EXCEPT !.Where = <<>>], <<>>),
              heap |-> h]
        ELSE [err |-> r.err, rows |-> r.rows,
              heap |-> IF Has(d.Executor, q.From)
                       THEN [h EXCEPT ![d.Executor[q.From].Storage] = r.DB[q.From]] ELSE h]

\* DB.Query after Parse: Execute on the executor's collections; h after the call
DB_Query(d, h, q, ord, rfails, dirFail) ==
    LET r == QueryExecutor_Execute([n \in DOMAIN d.Executor |-> h[d.Executor[n].Storage]],
                                   q, ord, rfails, dirFail)
    IN  [err |-> r.err, rows |-> r.rows,
         heap |-> IF Has(d.Executor, q.From)
                  THEN [h EXCEPT ![d.Executor[q.From].Storage] = r.DB[q.From]] ELSE h]

----------------------------------------------------------------------------
(* Initial states.  A collection is built over a fresh MemoryStorage or     *)
(* over a FileStorage with the cache on, which is how every caller in the   *)
(* repository builds one (main.go, config.DefaultConfig); its directory is  *)
(* empty or holds a file of an earlier run.  SpecStorage also starts from a *)
(* FileStorage with the cache off.                                          *)

PresetDoc == Doc(IdNames[1], [f \in {FieldNames[1]} |-> IntV(1)])

\* the documents that the callers of SpecLock and SpecColl save
LockDocs == {Doc(id, PresetDoc.Content) : id \in IDs}

InitDirs == {EmptyMap, [id \in {PresetDoc.ID} |-> Marshal(PresetDoc)]}

InitStorages ==
    {NewMemoryStorage} \cup {NewFileStorage(dir, uc) : dir \in InitDirs, uc \in BOOLEAN}

CollectionStorages == {s \in InitStorages : s.kind = "memory" \/ s.UseCache}

\* what a backend holds, as documents
Stored(s) ==
    IF s.kind = "memory" THEN s.Docs ELSE [id \in DOMAIN s.Files |-> Unmarshal(s.Files[id])]

\* the last call: its name, the identifier it was given ("" when it takes none), its error
Ret(op, id, err) == [op |-> op, id |-> id, err |-> err]

NoRet == Ret("", "", "")

NoLock == [w |-> 0, active |-> FALSE, readers |-> [t \in Threads |-> 0], blocked |-> {}]

NoLocals ==
    [t \in Threads |-> [id |-> "", doc |-> NoDoc, files |-> <<>>, inList |-> FALSE, err |-> ""]]

NoDB == [Collections |-> EmptyMap, Executor |-> EmptyMap]

NoQuery == [Select |-> <<>>, From |-> "", Where |-> <<>>, Limit |-> -1, Offset |-> 0]

\* the variables of the registry and of the queries before any call
InitDB ==
    /\ cmu = NoLock
    /\ dmu = NoLock
    /\ db = NoDB
    /\ heap = <<>>
    /\ query = NoQuery
    /\ results = <<>>

Init ==
    /\ st \in CollectionStorages
    /\ indexes = EmptyMap
    /\ ret = NoRet
    /\ live = Stored(st)
    /\ pc = [t \in Threads |-> "idle"]
    /\ rw = NoLock
    /\ loc = NoLocals
    /\ InitDB

Coll == [Storage |-> st, Indexes |-> indexes]

CallerDocs == InputDocs \cup {Doc("", c) : c \in Contents}

\* the disk faults a call can meet: none on a MemoryStorage
Faults == IF st.kind = "file" THEN BOOLEAN ELSE {FALSE}

FaultSets == IF st.kind = "file" THEN SUBSET IDs ELSE {{}}

\* the orders in which a List can visit the documents: os.ReadDir sorts, range does not
ListOrders == IF st.kind = "file" THEN {SelectSeq(IdNames, LAMBDA id : id \in IDs)}
              ELSE Orderings(IDs)

IndexTypes == {"btree", "hash"}

lockVars == <<pc, rw, loc>>

dbVars == <<cmu, dmu, db, heap, query, results>>

----------------------------------------------------------------------------
(* Spec: the calls of the Collection API. *)

InsertDocument ==
    \E doc \in CallerDocs, wfail \in Faults :
        LET r == Collection_InsertDocument(Coll, doc, wfail)
        IN  /\ st' = r.c.Storage
            /\ indexes' = r.c.Indexes
            /\ ret' = Ret("InsertDocument", doc.ID, r.err)
            /\ live' = IF r.err = "" THEN Put(live, doc.ID, doc) ELSE live
            /\ UNCHANGED <<lockVars, dbVars>>

GetDocument ==
    \E id \in IDs, rfail \in Faults :
        LET r == Collection_GetDocument(Coll, id, rfail)
        IN  /\ st' = r.c.Storage
            /\ ret' = Ret("GetDocument", id, r.err)
            /\ UNCHANGED <<indexes, live, lockVars, dbVars>>

UpdateDocument ==
    \E doc \in CallerDocs, rfail \in Faults, wfail \in Faults :
        LET r == Collection_UpdateDocument(Coll, doc, rfail, wfail)
        IN  /\ st' = r.c.Storage
            /\ indexes' = r.c.Indexes
            /\ ret' = Ret("UpdateDocument", doc.ID, r.err)
            /\ live' = IF r.err = "" THEN Put(live, doc.ID, doc) ELSE live
            /\ UNCHANGED <<lockVars, dbVars>>

DeleteDocument ==
    \E id \in IDs, wfail \in Faults :
        LET r == Collection_DeleteDocument(Coll, id, wfail)
        IN  /\ st' = r.c.Storage
            /\ indexes' = r.c.Indexes
            /\ ret' = Ret("DeleteDocument", id, r.err)
            /\ live' = IF r.err = "" THEN Del(live, id) ELSE live
            /\ UNCHANGED <<lockVars, dbVars>>

CreateIndex ==
    \E field \in Fields, indexType \in IndexTypes, order \in Orders,
       ord \in ListOrders, rfails \in FaultSets, dirFail \in Faults :
        LET r == Collection_CreateIndex(Coll, field, indexType, order, ord, rfails, dirFail)
        IN  /\ st' = r.c.Storage
            /\ indexes' = r.c.Indexes
            /\ ret' = Ret("CreateIndex", "", r.err)
            /\ UNCHANGED <<live, lockVars, dbVars>>

DropIndex ==
    \E field \in Fields :
        LET r == Collection_DropIndex(Coll, field)
        IN  /\ indexes' = r.c.Indexes
            /\ ret' = Ret("DropIndex", "", r.err)
            /\ UNCHANGED <<st, live, lockVars, dbVars>>

FindByIndex ==
    \E field \in Fields, value \in InputValues, rfails \in FaultSets :
        LET r == Collection_FindByIndex(Coll, field, value, rfails)
        IN  /\ st' = r.c.Storage
            /\ ret' = Ret("FindByIndex", "", r.err)
            /\ UNCHANGED <<indexes, live, lockVars, dbVars>>

ListDocuments ==
    \E ord \in ListOrders, rfails \in FaultSets, dirFail \in Faults :
        LET r == Collection_ListDocuments(Coll, ord, rfails, dirFail)
        IN  /\ st' = r.c.Storage
            /\ ret' = Ret("ListDocuments", "", r.err)
            /\ UNCHANGED <<indexes, live, lockVars, dbVars>>

Size ==
    \E ord \in ListOrders, rfails \in FaultSets, dirFail \in Faults :
        LET r == Collection_Size(Coll, ord, rfails, dirFail)
        IN  /\ st' = r.c.Storage
            /\ ret' = Ret("Size", "", r.err)
            /\ UNCHANGED <<indexes, live, lockVars, dbVars>>

Next ==
    \/ InsertDocument
    \/ GetDocument
    \/ UpdateDocument
    \/ DeleteDocument
    \/ CreateIndex
    \/ DropIndex
    \/ FindByIndex
    \/ ListDocuments
    \/ Size

Spec == Init /\ [][Next]_vars

----------------------------------------------------------------------------
(* SpecStorage: the calls of the Storage interface on one backend. *)

InitStorage ==
    /\ st \in InitStorages
    /\ indexes = EmptyMap
    /\ ret = NoRet
    /\ live = Stored(st)
    /\ pc = [t \in Threads |-> "idle"]
    /\ rw = NoLock
    /\ loc = NoLocals
    /\ InitDB

Save ==
    \E doc \in StorageDocs, wfail \in Faults :
        LET r == Storage_Save(st, doc, wfail)
        IN  /\ st' = r.s
            /\ ret' = Ret("Save", doc.ID, r.err)
            /\ live' = IF r.err = "" THEN Put(live, doc.ID, doc) ELSE live
            /\ UNCHANGED <<indexes, lockVars, dbVars>>

Get ==
    \E id \in IDs, rfail \in Faults :
        LET r == Storage_Get(st, id, rfail)
        IN  /\ st' = r.s
            /\ ret' = Ret("Get", id, r.err)
            /\ UNCHANGED <<indexes, live, lockVars, dbVars>>

Delete ==
    \E id \in IDs, wfail \in Faults :
        LET r == Storage_Delete(st, id, wfail)
        IN  /\ st' = r.s
            /\ ret' = Ret("Delete", id, r.err)
            /\ live' = IF r.err = "" THEN Del(live, id) ELSE live
            /\ UNCHANGED <<indexes, lockVars, dbVars>>

List ==
    \E ord \in ListOrders, rfails \in FaultSets, dirFail \in Faults :
        LET r == Storage_List(st, ord, rfails, dirFail)
        IN  /\ st' = r.s
            /\ ret' = Ret("List", "", r.err)
            /\ UNCHANGED <<indexes, live, lockVars, dbVars>>

NextStorage ==
    \/ Save
    \/ Get
    \/ Delete
    \/ List

SpecStorage == InitStorage /\ [][NextStorage]_vars

----------------------------------------------------------------------------
(* SpecQuery: QueryExecutor.Execute on an executor that knows one           *)
(* collection, over a MemoryStorage that holds up to NumQueryIds documents  *)
(* with an integer field and a boolean field.                               *)

CollNames == <<"c1", "c2", "c3">>

QueryIDs == {IdNames[i] : i \in 1..NumQueryIds}

IntField == FieldNames[1]
BoolField == FieldNames[2]
NoField == FieldNames[3]

QueryContents ==
    {c \in UNION {[D -> InputValues \cup {BoolV(TRUE)}] : D \in SUBSET {IntField, BoolField}} :
        \A k \in DOMAIN c : (k = IntField) <=> (c[k].t = "int")}

QueryStorages ==
    {[NewMemoryStorage EXCEPT !.Docs = [id \in DOMAIN m |-> Doc(id, m[id])]] :
        m \in UNION {[D -> QueryContents] : D \in SUBSET QueryIDs}}

QueryOrders == Orderings(QueryIDs)

Q(select, where, limit, offset) ==
    [Select |-> select, From |-> CollNames[1], Where |-> where, Limit |-> limit,
     Offset |-> offset]

\* leaves: every operator on the integer field, = and != on the boolean field, a
\* test of the identifier and a test of a field no document has
IntLeaves == {LeafCond(IntField, op, IntV(MaxInt)) : op \in Operators}

OtherLeaves ==
    {LeafCond(BoolField, op, BoolV(TRUE)) : op \in {"=", "!="}}
        \cup {LeafCond("_id", "=", IdValue(IdNames[1])), LeafCond(NoField, "!=", IntV(1))}

CoreLeaves ==
    {LeafCond(IntField, ">=", IntV(MaxInt)), LeafCond(BoolField, "=", BoolV(TRUE)),
     LeafCond("_id", "=", IdValue(IdNames[1]))}

BoolOps == {"AND", "OR"}

\* condition trees: leaves, nodes over two leaves, nodes with a nested node of the
\* other operator, nodes with one child and nodes without children
Conditions ==
    IntLeaves \cup OtherLeaves
        \cup {NodeCond(o, <<a, b>>) : o \in BoolOps, a \in CoreLeaves, b \in OtherLeaves}
        \cup {NodeCond(o1, <<a, NodeCond(o2, <<b, LeafCond(IntField, "<", IntV(MaxInt))>>)>>) :
                  o1 \in BoolOps, o2 \in BoolOps, a \in CoreLeaves, b \in CoreLeaves}
        \cup {NodeCond(o, <<a>>) : o \in BoolOps, a \in CoreLeaves}
        \cup {NodeCond(o, <<>>) : o \in BoolOps}

Selects ==
    {<<"*">>, <<IntField>>, <<IntField, BoolField>>, <<"_id">>, <<BoolField, "_id", NoField>>}

\* the queries: every condition with the wildcard and no window, every field list and
\* every window with no condition and with one condition
Queries ==
    {Q(<<"*">>, <<c>>, -1, 0) : c \in Conditions}
        \cup {Q(sel, w, -1, 0) : sel \in Selects,
                  w \in {<<>>, <<LeafCond(BoolField, "=", BoolV(TRUE))>>}}
        \cup {Q(<<"*">>, w, lim, off) : lim \in -1..MaxWindow, off \in 0..(MaxWindow + 1),
                  w \in {<<>>, <<LeafCond(IntField, ">=", IntV(MaxInt))>>}}

\* the executor's collections: one collection, over st
QueryDB == [n \in {CollNames[1]} |-> st]

\* a backend and a query handed to Execute
InitQuery ==
    /\ st \in QueryStorages
    /\ query \in Queries
    /\ results = <<>>
    /\ indexes = EmptyMap
    /\ ret = NoRet
    /\ live = Stored(st)
    /\ pc = [t \in Threads |-> "idle"]
    /\ rw = NoLock
    /\ loc = NoLocals
    /\ cmu = NoLock
    /\ dmu = NoLock
    /\ db = NoDB
    /\ heap = <<>>

\* Execute(query); the backend enumerates its documents in some order
Execute ==
    \E ord \in QueryOrders :
        LET r == QueryExecutor_Execute(QueryDB, query, ord, {}, FALSE)
        IN  /\ results' = r.rows
            /\ ret' = Ret("Query", "", r.err)
            /\ st' = r.DB[CollNames[1]]
            /\ UNCHANGED <<indexes, live, lockVars, cmu, dmu, db, heap, query>>

NextQuery == Execute

SpecQuery == InitQuery /\ [][NextQuery]_vars

----------------------------------------------------------------------------
(* SpecDB: the calls of the registry, run one at a time.  A caller of       *)
(* CreateCollection passes a new MemoryStorage or a backend built earlier;  *)
(* documents and indexes reach a collection through GetCollection.          *)

Names == {CollNames[i] : i \in 1..NumColls}

InitRegistry ==
    /\ st = NewMemoryStorage
    /\ indexes = EmptyMap
    /\ ret = NoRet
    /\ live = EmptyMap
    /\ pc = [t \in Threads |-> "idle"]
    /\ rw = NoLock
    /\ loc = NoLocals
    /\ InitDB

regVars == <<st, indexes, live, lockVars, cmu, dmu>>

\* storage.NewMemoryStorage(), then db.CreateCollection(name, storage)
CreateCollectionNew ==
    /\ Len(heap) < MaxBackends
    /\ \E name \in Names :
           LET r == DB_CreateCollection(db, name, Len(heap) + 1)
           IN  /\ db' = r.db
               /\ heap' = Append(heap, NewMemoryStorage)
               /\ ret' = Ret("CreateCollection", name, r.err)
    /\ UNCHANGED <<regVars, query, results>>

\* db.CreateCollection(name, storage) with a backend built earlier
CreateCollectionShared ==
    /\ \E name \in Names, storage \in 1..Len(heap) :
           LET r == DB_CreateCollection(db, name, storage)
           IN  /\ db' = r.db
               /\ ret' = Ret("CreateCollection", name, r.err)
    /\ UNCHANGED <<regVars, heap, query, results>>

GetCollection ==
    /\ \E name \in Names : ret' = Ret("GetCollection", name, DB_GetCollection(db, name).err)
    /\ UNCHANGED <<regVars, db, heap, query, results>>

DropCollection ==
    /\ \E name \in Names :
           LET r == DB_DropCollection(db, name)
           IN  /\ db' = r.db
               /\ ret' = Ret("DropCollection", name, r.err)
    /\ UNCHANGED <<regVars, heap, query, results>>

\* the collection of the registry as a value: its backend read from the heap
CollOf(name) ==
    [Storage |-> heap[db.Collections[name].Storage], Indexes |-> db.Collections[name].Indexes]

\* the documents inserted through the registry: one identifier, any value of the field
RegistryDocs == {Doc(PresetDoc.ID, [f \in {FieldNames[1]} |-> v]) : v \in InputValues}

\* SELECT * FROM name, without WHERE or with WHERE f = v
RegistryQueries(name) ==
    {[Q(<<"*">>, where, -1, 0) EXCEPT !.From = name] :
        where \in {<<>>} \cup {<<LeafCond(FieldNames[1], "=", v)>> : v \in InputValues}}

\* db.GetCollection(name), then InsertDocument(doc) on the collection
InsertInto ==
    /\ \E name \in DOMAIN db.Collections, doc \in RegistryDocs :
           LET r == Collection_InsertDocument(CollOf(name), doc, FALSE)
           IN  /\ heap' = [heap EXCEPT ![db.Collections[name].Storage] = r.c.Storage]
               /\ db' = [db EXCEPT !.Collections[name].Indexes = r.c.Indexes]
               /\ ret' = Ret("InsertDocument", doc.ID, r.err)
    /\ UNCHANGED <<regVars, query, results>>

\* db.GetCollection(name), then CreateIndex(field, "btree", order) on the collection
CreateIndexOn ==
    /\ \E name \in DOMAIN db.Collections, field \in Fields, order \in Orders,
          ord \in Orderings(IDs) :
           LET r == Collection_CreateIndex(CollOf(name), field, "btree", order, ord, {}, FALSE)
           IN  /\ heap' = [heap EXCEPT ![db.Collections[name].Storage] = r.c.Storage]
               /\ db' = [db EXCEPT !.Collections[name].Indexes = r.c.Indexes]
               /\ ret' = Ret("CreateIndex", name, r.err)
    /\ UNCHANGED <<regVars, query, results>>

\* db.Query("SELECT * FROM name"), db.Query("SELECT * FROM name WHERE f = v")
Query ==
    /\ \E name \in Names, ord \in Orderings(IDs) : \E q \in RegistryQueries(name) :
           LET r == DB_Query(db, heap, q, ord, {}, FALSE)
           IN  /\ query' = q
               /\ results' = r.rows
               /\ heap' = r.heap
               /\ ret' = Ret("Query", name, r.err)
    /\ UNCHANGED <<regVars, db>>

NextDB ==
    \/ CreateCollectionNew
    \/ CreateCollectionShared
    \/ GetCollection
    \/ DropCollection
    \/ InsertInto
    \/ CreateIndexOn
    \/ Query

SpecDB == InitRegistry /\ [][NextDB]_vars

----------------------------------------------------------------------------
(* SpecCompare: the two comparison functions applied to one pair of values:  *)
(* strings, integers, floats (whole and with a half, negative ones too) and  *)
(* booleans.  query holds the pair, results the two signs.                   *)

CompareValues ==
    {StrV(s) : s \in {<<>>, <<1>>, <<2>>, <<1, 2>>}}
        \cup {IntV(n) : n \in (0 - MaxInt)..MaxInt}
        \cup {FloatV(n, h) : n \in (0 - MaxInt)..MaxInt, h \in BOOLEAN}
        \cup {BoolV(b) : b \in BOOLEAN}
        \cup {NilV}

InitCompare ==
    /\ query \in [a : CompareValues, b : CompareValues, c : CompareValues]
    /\ results = <<>>
    /\ st = NewMemoryStorage
    /\ indexes = EmptyMap
    /\ ret = NoRet
    /\ live = EmptyMap
    /\ pc = [t \in Threads |-> "idle"]
    /\ rw = NoLock
    /\ loc = NoLocals
    /\ cmu = NoLock
    /\ dmu = NoLock
    /\ db = NoDB
    /\ heap = <<>>

\* qe.compare(a, b) and the index's compare(a, b); then the index's compare on the other
\* pairs of a, b, c
Compare ==
    /\ results' = <<QueryExecutor_compare(query.a, query.b), compare(query.a, query.b),
                    compare(query.b, query.a), compare(query.b, query.c),
                    compare(query.a, query.c)>>
    /\ ret' = Ret("compare", "", "")
    /\ UNCHANGED <<st, indexes, live, lockVars, cmu, dmu, db, heap, query>>

\* qe.evalCondition(doc, cond) with the leaf "f op b" and a document whose field f is a,
\* or that has no field f
Evaluate ==
    /\ \E op \in Operators, content \in {[f \in {FieldNames[1]} |-> query.a], EmptyMap} :
           LET doc == Doc(IdNames[1], content)
               cond == LeafCond(FieldNames[1], op, query.b)
           IN  results' = [doc |-> doc, cond |-> cond, match |-> evalCondition(doc, cond)]
    /\ ret' = Ret("evalCondition", "", "")
    /\ UNCHANGED <<st, indexes, live, lockVars, cmu, dmu, db, heap, query>>

NextCompare == Compare \/ Evaluate

SpecCompare == InitCompare /\ [][NextCompare]_vars

----------------------------------------------------------------------------
(* SpecParse: parseCondition applied to one WHERE text, the text that Parse  *)
(* hands it.  query holds the text, results the condition and the error.     *)

ParseField == <<"f">>

\* literals and the values they denote
Literals ==
    {[text |-> <<"1">>, val |-> IntV(1)],
     [text |-> <<"1", "2">>, val |-> IntV(12)],
     [text |-> <<"-", "1">>, val |-> IntV(0 - 1)],
     [text |-> <<"1", ".", "5">>, val |-> FloatV(1, TRUE)],
     [text |-> <<"2", ".", "0">>, val |-> FloatV(2, FALSE)],
     [text |-> <<"t", "r", "u", "e">>, val |-> BoolV(TRUE)],
     [text |-> <<"F", "A", "L", "S", "E">>, val |-> BoolV(FALSE)],
     [text |-> <<"T", "r", "u", "e">>, val |-> BoolV(TRUE)]}
        \cup {[text |-> <<"'">> \o inner \o <<"'">>, val |-> TextValue(inner)] :
                  inner \in {<<>>, <<"a">>, <<"a", " ", "b">>, <<"1">>, <<"a", ">", "b">>,
                             <<"<", "=">>, <<"=">>, <<">">>, <<"!">>}}

Spacings == {<<>>, <<" ">>}

LeafText(field, op, lit, sp) == field \o sp \o op \o sp \o lit

LeafTexts ==
    {LeafText(ParseField, LeafOps[i], lit.text, sp) :
        i \in 1..Len(LeafOps), lit \in Literals, sp \in Spacings}

\* texts that are no condition: no operator, no literal, a literal that is no number,
\* an opening quote alone
BadTexts ==
    {ParseField, ParseField \o <<" ", "=">>, ParseField \o <<" ", "=", " ", "x">>,
     ParseField \o <<" ", "=", " ", "1", ".", "x">>, ParseField \o <<" ", "=", " ", "'">>,
     <<>>}

CoreTexts ==
    {LeafText(ParseField, <<"=">>, <<"1">>, <<" ">>),
     LeafText(ParseField, <<">", "=">>, <<"1", ".", "5">>, <<" ">>),
     LeafText(ParseField, <<"!", "=">>, <<"'", "a", "'">>, <<" ">>)}

\* the boolean keywords in upper, lower and mixed case
Keywords ==
    {<<" ", "A", "N", "D", " ">>, <<" ", "O", "R", " ">>, <<" ", "a", "n", "d", " ">>,
     <<" ", "o", "r", " ">>, <<" ", "A", "n", "d", " ">>, <<" ", "O", "r", " ">>}

CompoundTexts ==
    {a \o k \o b : a \in CoreTexts, b \in CoreTexts, k \in Keywords}
        \cup {a \o k1 \o b \o k2 \o a :
                  a \in CoreTexts, b \in CoreTexts,
                  k1 \in {<<" ", "A", "N", "D", " ">>, <<" ", "O", "R", " ">>},
                  k2 \in {<<" ", "A", "N", "D", " ">>, <<" ", "O", "R", " ">>}}
        \cup {LeafText(ParseField, <<"=">>, <<"'", "a", " ", "o", "r", " ", "b", "'">>, <<" ">>),
              LeafText(ParseField, <<"=">>, <<"'", "a", " ", "O", "R", " ", "b", "'">>, <<" ">>)}

CondTexts == LeafTexts \cup BadTexts \cup CompoundTexts

InitParse ==
    /\ query \in [text : CondTexts]
    /\ results = <<>>
    /\ st = NewMemoryStorage
    /\ indexes = EmptyMap
    /\ ret = NoRet
    /\ live = EmptyMap
    /\ pc = [t \in Threads |-> "idle"]
    /\ rw = NoLock
    /\ loc = NoLocals
    /\ cmu = NoLock
    /\ dmu = NoLock
    /\ db = NoDB
    /\ heap = <<>>

\* Parse: condition, err := qp.parseCondition(whereMatches[1])
ParseWhere ==
    LET r == parseCondition(query.text, MaxStack)
    IN  /\ results' = r
        /\ ret' = Ret("Parse", "", r.err)
        /\ UNCHANGED <<st, indexes, live, lockVars, cmu, dmu, db, heap, query>>

NextParse == ParseWhere

SpecParse == InitParse /\ [][NextParse]_vars

----------------------------------------------------------------------------
(* SpecIndex: one BTreeIndex on the first field, driven directly through     *)
(* Add and Remove.  The documents hold an integer, a float, a string or no   *)
(* value in the field.  indexes holds the index under its field.             *)

IndexedValues == InputValues \cup {FloatV(1, TRUE), StrV(<<1>>)}

IndexedDocs ==
    {Doc(id, c) : id \in IDs, c \in [{FieldNames[1]} -> IndexedValues] \cup {EmptyMap}}

InitIndex ==
    /\ indexes = [f \in {FieldNames[1]} |-> NewBTreeIndex(FieldNames[1], MaxOrder)]
    /\ st = NewMemoryStorage
    /\ ret = NoRet
    /\ live = EmptyMap
    /\ pc = [t \in Threads |-> "idle"]
    /\ rw = NoLock
    /\ loc = NoLocals
    /\ InitDB

\* idx.Add(doc)
Add ==
    \E doc \in IndexedDocs :
        /\ indexes' = [indexes EXCEPT ![FieldNames[1]] = BTreeIndex_Add(@, doc)]
        /\ ret' = Ret("Add", doc.ID, "")
        /\ UNCHANGED <<st, live, lockVars, dbVars>>

\* idx.Remove(id)
Remove ==
    \E id \in IDs :
        /\ indexes' = [indexes EXCEPT ![FieldNames[1]] = BTreeIndex_Remove(@, id)]
        /\ ret' = Ret("Remove", id, "")
        /\ UNCHANGED <<st, live, lockVars, dbVars>>

NextIndex == Add \/ Remove

SpecIndex == InitIndex /\ [][NextIndex]_vars

----------------------------------------------------------------------------
(* SpecLock: goroutines calling Save, Get, Delete and List of one backend    *)
(* concurrently.  Every call is a sequence of steps: the operations on       *)
(* Mutex (sync.RWMutex) and each access to Docs, to the directory and to     *)
(* Cache.                                                                    *)
(*                                                                           *)
(* sync.RWMutex: rw.w is the goroutine that holds the writers' mutex (the    *)
(* writer that is pending or active), rw.active tells that it holds the      *)
(* lock, rw.readers counts each goroutine's read holds, rw.blocked are the   *)
(* goroutines that called RLock while a writer was pending or active: they   *)
(* sleep until that writer's Unlock hands them the lock.                     *)

InitLock ==
    /\ st \in InitStorages
    /\ indexes = EmptyMap
    /\ ret = NoRet
    /\ live = Stored(st)
    /\ pc = [t \in Threads |-> "idle"]
    /\ rw = NoLock
    /\ loc = NoLocals
    /\ InitDB

dataVars == <<indexes, ret, live>>

Goto(t, label) == pc' = [pc EXCEPT ![t] = label]

RECURSIVE SumReaders(_)
SumReaders(ts) ==
    IF ts = {} THEN 0
    ELSE LET t == CHOOSE x \in ts : TRUE IN rw.readers[t] + SumReaders(ts \ {t})

\* a goroutine calls Save(doc), Get(id), Delete(id) or List()
CallSave(t) ==
    /\ pc[t] = "idle"
    /\ \E doc \in LockDocs : loc' = [loc EXCEPT ![t].doc = doc, ![t].id = doc.ID]
    /\ Goto(t, "Save_Lock")
    /\ UNCHANGED <<st, rw, dataVars, dbVars>>

CallGet(t) ==
    /\ pc[t] = "idle"
    /\ \E id \in IDs : loc' = [loc EXCEPT ![t].id = id]
    /\ Goto(t, "Get_RLock")
    /\ UNCHANGED <<st, rw, dataVars, dbVars>>

CallDelete(t) ==
    /\ pc[t] = "idle"
    /\ \E id \in IDs : loc' = [loc EXCEPT ![t].id = id]
    /\ Goto(t, "Delete_Lock")
    /\ UNCHANGED <<st, rw, dataVars, dbVars>>

CallList(t) ==
    /\ pc[t] = "idle"
    /\ Goto(t, "List_RLock")
    /\ UNCHANGED <<st, rw, loc, dataVars, dbVars>>

\* Mutex.Lock(): take the writers' mutex, which makes this writer pending ...
Lock(t) ==
    /\ pc[t] \in {"Save_Lock", "Delete_Lock"}
    /\ rw.w = 0
    /\ rw' = [rw EXCEPT !.w = t]
    /\ Goto(t, IF pc[t] = "Save_Lock" THEN "Save_LockWait" ELSE "Delete_LockWait")
    /\ UNCHANGED <<st, loc, dataVars, dbVars>>

\* ... and wait until the readers that hold the lock have released it
LockWait(t) ==
    /\ pc[t] \in {"Save_LockWait", "Delete_LockWait"}
    /\ SumReaders(Threads) = 0
    /\ rw' = [rw EXCEPT !.active = TRUE]
    /\ Goto(t, IF pc[t] = "Save_LockWait" THEN "Save_write" ELSE "Delete_remove")
    /\ UNCHANGED <<st, loc, dataVars, dbVars>>

\* where a reader goes once it holds the read lock
AfterRLock(t) ==
    IF pc[t] \in {"List_RLock", "List_RLockWait"} THEN "List_dir"
    ELSE IF st.kind = "file" /\ st.UseCache THEN "Get_cache"
    ELSE "Get_read"

\* Mutex.RLock(): acquired at once unless a writer is pending or active
RLock(t) ==
    /\ pc[t] \in {"Get_RLock", "List_RLock"}
    /\ IF rw.w = 0
       THEN /\ rw' = [rw EXCEPT !.readers[t] = @ + 1]
            /\ Goto(t, AfterRLock(t))
       ELSE /\ rw' = [rw EXCEPT !.blocked = @ \cup {t}]
            /\ Goto(t, IF pc[t] = "Get_RLock" THEN "Get_RLockWait" ELSE "List_RLockWait")
    /\ UNCHANGED <<st, loc, dataVars, dbVars>>

\* a blocked reader wakes up once the writer's Unlock has handed it the lock
RLockWait(t) ==
    /\ pc[t] \in {"Get_RLockWait", "List_RLockWait"}
    /\ t \notin rw.blocked
    /\ Goto(t, AfterRLock(t))
    /\ UNCHANGED <<st, rw, loc, dataVars, dbVars>>

\* Save: ms.Docs[doc.ID] = doc, or os.WriteFile, which may fail
SaveWrite(t) ==
    /\ pc[t] = "Save_write"
    /\ \/ /\ st.kind = "memory"
          /\ st' = MemoryStorage_Save(st, loc[t].doc).s
          /\ Goto(t, "Save_Unlock")
       \/ /\ st.kind = "file"
          /\ st' = [st EXCEPT !.Files = Put(st.Files, loc[t].id, Marshal(loc[t].doc))]
          /\ Goto(t, IF st.UseCache THEN "Save_cache" ELSE "Save_Unlock")
       \/ /\ st.kind = "file"
          /\ st' = st
          /\ Goto(t, "Save_Unlock")
    /\ UNCHANGED <<rw, loc, dataVars, dbVars>>

\* Save: fs.Cache[doc.ID] = doc
SaveCache(t) ==
    /\ pc[t] = "Save_cache"
    /\ st' = [st EXCEPT !.Cache = Put(st.Cache, loc[t].id, loc[t].doc)]
    /\ Goto(t, "Save_Unlock")
    /\ UNCHANGED <<rw, loc, dataVars, dbVars>>

\* Delete: delete(ms.Docs, id), or os.Remove, which may fail
DeleteRemove(t) ==
    /\ pc[t] = "Delete_remove"
    /\ \/ /\ st.kind = "memory"
          /\ st' = MemoryStorage_Delete(st, loc[t].id).s
          /\ Goto(t, "Delete_Unlock")
       \/ /\ st.kind = "file" /\ Has(st.Files, loc[t].id)
          /\ st' = [st EXCEPT !.Files = Del(st.Files, loc[t].id)]
          /\ Goto(t, IF st.UseCache THEN "Delete_cache" ELSE "Delete_Unlock")
       \/ /\ st.kind = "file"
          /\ st' = st
          /\ Goto(t, "Delete_Unlock")
    /\ UNCHANGED <<rw, loc, dataVars, dbVars>>

\* Delete: delete(fs.Cache, id)
DeleteCache(t) ==
    /\ pc[t] = "Delete_cache"
    /\ st' = [st EXCEPT !.Cache = Del(st.Cache, loc[t].id)]
    /\ Goto(t, "Delete_Unlock")
    /\ UNCHANGED <<rw, loc, dataVars, dbVars>>

\* Mutex.Unlock(): the readers that blocked meanwhile get the lock
Unlock(t) ==
    /\ pc[t] \in {"Save_Unlock", "Delete_Unlock"}
    /\ rw' = [w |-> 0, active |-> FALSE,
              readers |-> [u \in Threads |->
                              IF u \in rw.blocked THEN rw.readers[u] + 1 ELSE rw.readers[u]],
              blocked |-> {}]
    /\ Goto(t, "idle")
    /\ loc' = [loc EXCEPT ![t] = NoLocals[t]]
    /\ UNCHANGED <<st, dataVars, dbVars>>

\* Get: the lookup fs.Cache[id]; a hit returns
GetCache(t) ==
    /\ pc[t] = "Get_cache"
    /\ Goto(t, IF Has(st.Cache, loc[t].id) THEN "Get_RUnlock" ELSE "Get_read")
    /\ UNCHANGED <<st, rw, loc, dataVars, dbVars>>

\* Get: the lookup ms.Docs[id], or os.ReadFile and json.Unmarshal, which may fail
GetRead(t) ==
    /\ pc[t] = "Get_read"
    /\ \/ /\ st.kind = "file" /\ st.UseCache /\ Has(st.Files, loc[t].id)
          /\ loc' = [loc EXCEPT ![t].doc = Unmarshal(st.Files[loc[t].id])]
          /\ Goto(t, "Get_fill")
       \/ /\ ~(st.kind = "file" /\ st.UseCache /\ Has(st.Files, loc[t].id))
          /\ loc' = loc
          /\ Goto(t, "Get_RUnlock")
       \/ /\ st.kind = "file"
          /\ loc' = loc
          /\ Goto(t, "Get_RUnlock")
    /\ UNCHANGED <<st, rw, dataVars, dbVars>>

\* Get: fs.Cache[id] = doc
GetFill(t) ==
    /\ pc[t] = "Get_fill"
    /\ st' = [st EXCEPT !.Cache = Put(st.Cache, loc[t].id, loc[t].doc)]
    /\ Goto(t, "Get_RUnlock")
    /\ UNCHANGED <<rw, loc, dataVars, dbVars>>

\* List: range ms.Docs, or os.ReadDir, which may fail
ListDir(t) ==
    /\ pc[t] = "List_dir"
    /\ \/ /\ st.kind = "memory"
          /\ loc' = loc
          /\ Goto(t, "List_RUnlock")
       \/ /\ st.kind = "file"
          /\ loc' = [loc EXCEPT ![t].files = ReadDir(st), ![t].inList = TRUE]
          /\ Goto(t, "List_next")
       \/ /\ st.kind = "file"
          /\ loc' = loc
          /\ Goto(t, "List_RUnlock")
    /\ UNCHANGED <<st, rw, dataVars, dbVars>>

\* List: the next directory entry is loaded with fs.Get(id)
ListNext(t) ==
    /\ pc[t] = "List_next"
    /\ IF loc[t].files = <<>>
       THEN /\ loc' = [loc EXCEPT ![t].inList = FALSE]
            /\ Goto(t, "List_RUnlock")
       ELSE /\ loc' = [loc EXCEPT ![t].id = Head(loc[t].files),
                                  ![t].files = Tail(loc[t].files)]
            /\ Goto(t, "Get_RLock")
    /\ UNCHANGED <<st, rw, dataVars, dbVars>>

\* Mutex.RUnlock(); a Get called by List returns into the loop of List
RUnlock(t) ==
    /\ pc[t] \in {"Get_RUnlock", "List_RUnlock"}
    /\ rw' = [rw EXCEPT !.readers[t] = @ - 1]
    /\ IF pc[t] = "Get_RUnlock" /\ loc[t].inList
       THEN Goto(t, "List_next") /\ loc' = loc
       ELSE Goto(t, "idle") /\ loc' = [loc EXCEPT ![t] = NoLocals[t]]
    /\ UNCHANGED <<st, dataVars, dbVars>>

\* a step of a call that goroutine t has started
Step(t) ==
    \/ Lock(t)
    \/ LockWait(t)
    \/ RLock(t)
    \/ RLockWait(t)
    \/ SaveWrite(t)
    \/ SaveCache(t)
    \/ DeleteRemove(t)
    \/ DeleteCache(t)
    \/ Unlock(t)
    \/ GetCache(t)
    \/ GetRead(t)
    \/ GetFill(t)
    \/ ListDir(t)
    \/ ListNext(t)
    \/ RUnlock(t)

Call(t) ==
    \/ CallSave(t)
    \/ CallGet(t)
    \/ CallDelete(t)
    \/ CallList(t)

NextLock == \E t \in Threads : Call(t) \/ Step(t)

SpecLock == InitLock /\ [][NextLock]_vars

----------------------------------------------------------------------------
(* SpecColl: goroutines calling the operations of one collection over a      *)
(* MemoryStorage, and DB.Query on that collection, concurrently.  cmu is     *)
(* Collection.Mutex, a sync.RWMutex modelled as rw is.  Every call is a      *)
(* sequence of steps: the operations on Collection.Mutex, each call of the   *)
(* backend and each pass over c.Indexes.  A call of the backend is one step: *)
(* MemoryStorage holds its own Mutex for the whole of it.  DB.Query holds    *)
(* DB.Mutex for reading, which no call of this specification writes.         *)

MutatorOps ==
    {"InsertDocument", "UpdateDocument", "DeleteDocument", "CreateIndex", "DropIndex"}

ReaderOps == {"GetDocument", "ListDocuments", "Size", "FindByIndex"}

\* the field the callers index and the value they search
IndexField == FieldNames[1]

IndexValue == PresetDoc.Content[IndexField]

InitColl ==
    /\ st = NewMemoryStorage
    /\ indexes = EmptyMap
    /\ ret = NoRet
    /\ live = Stored(st)
    /\ pc = [t \in Threads |-> "idle"]
    /\ rw = NoLock
    /\ loc = NoLocals
    /\ InitDB

restVars == <<live, rw, dmu, db, heap, query>>

RECURSIVE SumCollReaders(_)
SumCollReaders(ts) ==
    IF ts = {} THEN 0
    ELSE LET t == CHOOSE x \in ts : TRUE IN cmu.readers[t] + SumCollReaders(ts \ {t})

\* a goroutine calls an operation of the collection
CallWithDoc(t) ==
    /\ pc[t] = "idle"
    /\ \E op \in {"InsertDocument", "UpdateDocument"}, doc \in LockDocs :
           /\ loc' = [loc EXCEPT ![t].doc = doc, ![t].id = doc.ID]
           /\ Goto(t, op \o "_Lock")
    /\ UNCHANGED <<st, indexes, ret, cmu, results, restVars>>

CallWithId(t) ==
    /\ pc[t] = "idle"
    /\ \E op \in {"DeleteDocument", "GetDocument"}, id \in IDs :
           /\ loc' = [loc EXCEPT ![t].id = id]
           /\ Goto(t, op \o (IF op \in MutatorOps THEN "_Lock" ELSE "_RLock"))
    /\ UNCHANGED <<st, indexes, ret, cmu, results, restVars>>

CallOther(t) ==
    /\ pc[t] = "idle"
    /\ \E op \in {"CreateIndex", "DropIndex", "ListDocuments", "Size", "FindByIndex"} :
           Goto(t, op \o (IF op \in MutatorOps THEN "_Lock" ELSE "_RLock"))
    /\ UNCHANGED <<st, indexes, ret, loc, cmu, results, restVars>>

\* a goroutine calls DB.Query: it takes no lock of the collection
CallQuery(t) ==
    /\ pc[t] = "idle"
    /\ Goto(t, "Query_first")
    /\ UNCHANGED <<st, indexes, ret, loc, cmu, results, restVars>>

\* c.Mutex.Lock() that does not wait for the readers
CollLockWait_NoWait(t) ==
    /\ \E op \in MutatorOps :
           /\ pc[t] = op \o "_LockWait"
           /\ Goto(t, op \o "_first")
    /\ cmu' = [cmu EXCEPT !.active = TRUE]
    /\ UNCHANGED <<st, indexes, ret, loc, results, restVars>>

\* c.Mutex.Lock(): take the writers' mutex ...
CollLock(t) ==
    /\ \E op \in MutatorOps :
           /\ pc[t] = op \o "_Lock"
           /\ Goto(t, op \o "_LockWait")
    /\ cmu.w = 0
    /\ cmu' = [cmu EXCEPT !.w = t]
    /\ UNCHANGED <<st, indexes, ret, loc, results, restVars>>

\* ... and wait until the readers that hold the lock have released it
CollLockWait(t) ==
    /\ \E op \in MutatorOps :
           /\ pc[t] = op \o "_LockWait"
           /\ Goto(t, op \o "_first")
    /\ SumCollReaders(Threads) = 0
    /\ cmu' = [cmu EXCEPT !.active = TRUE]
    /\ UNCHANGED <<st, indexes, ret, loc, results, restVars>>

\* c.Mutex.RLock(): acquired at once unless a writer is pending or active
CollRLock(t) ==
    /\ \E op \in ReaderOps :
           /\ pc[t] = op \o "_RLock"
           /\ IF cmu.w = 0
              THEN /\ cmu' = [cmu EXCEPT !.readers[t] = @ + 1]
                   /\ Goto(t, op \o "_first")
              ELSE /\ cmu' = [cmu EXCEPT !.blocked = @ \cup {t}]
                   /\ Goto(t, op \o "_RLockWait")
    /\ UNCHANGED <<st, indexes, ret, loc, results, restVars>>

\* a blocked reader wakes up once the writer's Unlock has handed it the lock
CollRLockWait(t) ==
    /\ \E op \in ReaderOps :
           /\ pc[t] = op \o "_RLockWait"
           /\ Goto(t, op \o "_first")
    /\ t \notin cmu.blocked
    /\ UNCHANGED <<st, indexes, ret, loc, cmu, results, restVars>>

\* InsertDocument: the check of doc.ID and c.Storage.Save(doc)
InsertSave(t) ==
    /\ pc[t] = "InsertDocument_first"
    /\ IF loc[t].doc.ID = ""
       THEN /\ loc' = [loc EXCEPT ![t].err = "invalid"]
            /\ st' = st
            /\ Goto(t, "InsertDocument_Unlock")
       ELSE LET sv == Storage_Save(st, loc[t].doc, FALSE)
            IN  /\ st' = sv.s
                /\ loc' = [loc EXCEPT ![t].err = sv.err]
                /\ Goto(t, IF sv.err # "" THEN "InsertDocument_Unlock"
                           ELSE "InsertDocument_index")
    /\ UNCHANGED <<indexes, ret, cmu, results, restVars>>

\* InsertDocument and UpdateDocument: idx.Add(doc) for every index
AddToIndexes(t) ==
    /\ \E op \in {"InsertDocument", "UpdateDocument"} :
           /\ pc[t] = op \o "_index"
           /\ Goto(t, op \o "_Unlock")
    /\ indexes' = AddAll(indexes, loc[t].doc)
    /\ UNCHANGED <<st, ret, loc, cmu, results, restVars>>

\* UpdateDocument: the check of doc.ID, c.Storage.Get(doc.ID) and idx.Remove of the
\* document found
UpdateRemove(t) ==
    /\ pc[t] = "UpdateDocument_first"
    /\ IF loc[t].doc.ID = ""
       THEN /\ loc' = [loc EXCEPT ![t].err = "invalid"]
            /\ indexes' = indexes
            /\ Goto(t, "UpdateDocument_Unlock")
       ELSE LET old == Storage_Get(st, loc[t].doc.ID, FALSE)
            IN  /\ indexes' = IF old.err = "" THEN RemoveAll(indexes, old.doc.ID)
                              ELSE indexes
                /\ loc' = loc
                /\ Goto(t, "UpdateDocument_save")
    /\ UNCHANGED <<st, ret, cmu, results, restVars>>

\* UpdateDocument: c.Storage.Save(doc)
UpdateSave(t) ==
    /\ pc[t] = "UpdateDocument_save"
    /\ LET sv == Storage_Save(st, loc[t].doc, FALSE)
       IN  /\ st' = sv.s
           /\ loc' = [loc EXCEPT ![t].err = sv.err]
           /\ Goto(t, IF sv.err # "" THEN "UpdateDocument_Unlock" ELSE "UpdateDocument_index")
    /\ UNCHANGED <<indexes, ret, cmu, results, restVars>>

\* DeleteDocument: idx.Remove(id) for every index
DeleteFromIndexes(t) ==
    /\ pc[t] = "DeleteDocument_first"
    /\ indexes' = RemoveAll(indexes, loc[t].id)
    /\ Goto(t, "DeleteDocument_storage")
    /\ UNCHANGED <<st, ret, loc, cmu, results, restVars>>

\* DeleteDocument: c.Storage.Delete(id)
DeleteStorage(t) ==
    /\ pc[t] = "DeleteDocument_storage"
    /\ LET del == Storage_Delete(st, loc[t].id, FALSE)
       IN  /\ st' = del.s
           /\ loc' = [loc EXCEPT ![t].err = del.err]
    /\ Goto(t, "DeleteDocument_Unlock")
    /\ UNCHANGED <<indexes, ret, cmu, results, restVars>>

\* CreateIndex: the check of c.Indexes[field] and c.Indexes[field] = idx
CreateIndexRegister(t) ==
    /\ pc[t] = "CreateIndex_first"
    /\ IF Has(indexes, IndexField)
       THEN /\ loc' = [loc EXCEPT ![t].err = "exists"]
            /\ indexes' = indexes
            /\ Goto(t, "CreateIndex_Unlock")
       ELSE /\ indexes' = Put(indexes, IndexField, NewBTreeIndex(IndexField, MaxOrder))
            /\ loc' = loc
            /\ Goto(t, "CreateIndex_fill")
    /\ UNCHANGED <<st, ret, cmu, results, restVars>>

\* CreateIndex: c.Storage.List() and idx.Add of every document listed
CreateIndexFill(t) ==
    /\ pc[t] = "CreateIndex_fill"
    /\ \E ord \in Orderings(IDs) :
           LET ls == Storage_List(st, ord, {}, FALSE)
           IN  /\ st' = ls.s
               /\ indexes' = IF ls.err # "" THEN indexes
                             ELSE [indexes EXCEPT ![IndexField] = AddDocs(@, ls.docs)]
               /\ loc' = [loc EXCEPT ![t].err = ls.err]
    /\ Goto(t, "CreateIndex_Unlock")
    /\ UNCHANGED <<ret, cmu, results, restVars>>

\* DropIndex: the check of c.Indexes[field] and delete(c.Indexes, field)
DropIndexDelete(t) ==
    /\ pc[t] = "DropIndex_first"
    /\ LET r == Collection_DropIndex(Coll, IndexField)
       IN  /\ indexes' = r.c.Indexes
           /\ loc' = [loc EXCEPT ![t].err = r.err]
    /\ Goto(t, "DropIndex_Unlock")
    /\ UNCHANGED <<st, ret, cmu, results, restVars>>

\* the deferred c.Mutex.Unlock(): the readers that blocked meanwhile get the lock
CollUnlock(t) ==
    /\ \E op \in MutatorOps :
           /\ pc[t] = op \o "_Unlock"
           /\ ret' = Ret(op, loc[t].id, loc[t].err)
    /\ cmu' = [w |-> 0, active |-> FALSE,
               readers |-> [u \in Threads |->
                               IF u \in cmu.blocked THEN cmu.readers[u] + 1
                               ELSE cmu.readers[u]],
               blocked |-> {}]
    /\ Goto(t, "idle")
    /\ loc' = [loc EXCEPT ![t] = NoLocals[t]]
    /\ UNCHANGED <<st, indexes, results, restVars>>

\* GetDocument: c.Storage.Get(id)
GetDocumentRead(t) ==
    /\ pc[t] = "GetDocument_first"
    /\ LET got == Storage_Get(st, loc[t].id, FALSE)
       IN  /\ st' = got.s
           /\ loc' = [loc EXCEPT ![t].err = got.err]
    /\ Goto(t, "GetDocument_RUnlock")
    /\ UNCHANGED <<indexes, ret, cmu, results, restVars>>

\* ListDocuments and Size: c.Storage.List()
ListRead(t) ==
    /\ \E op \in {"ListDocuments", "Size"} :
           /\ pc[t] = op \o "_first"
           /\ Goto(t, op \o "_RUnlock")
    /\ \E ord \in Orderings(IDs) :
           LET ls == Storage_List(st, ord, {}, FALSE)
           IN  /\ st' = ls.s
               /\ loc' = [loc EXCEPT ![t].err = ls.err]
    /\ UNCHANGED <<indexes, ret, cmu, results, restVars>>

\* FindByIndex: the lookup c.Indexes[field] and idx.Search(field, value)
FindSearch(t) ==
    /\ pc[t] = "FindByIndex_first"
    /\ IF ~Has(indexes, IndexField)
       THEN /\ loc' = [loc EXCEPT ![t].err = "notfound"]
            /\ Goto(t, "FindByIndex_RUnlock")
       ELSE LET found == BTreeIndex_Search(indexes[IndexField], IndexField, IndexValue)
            IN  /\ loc' = [loc EXCEPT ![t].err = found.err, ![t].files = found.ids]
                /\ Goto(t, IF found.err # "" THEN "FindByIndex_RUnlock"
                           ELSE "FindByIndex_get")
    /\ UNCHANGED <<st, indexes, ret, cmu, results, restVars>>

\* FindByIndex: c.Storage.Get of every identifier found; the documents' identifiers
FindGet(t) ==
    /\ pc[t] = "FindByIndex_get"
    /\ LET each == GetEach(st, loc[t].files, {}, <<>>)
       IN  /\ st' = each.s
           /\ loc' = [loc EXCEPT ![t].files = [i \in 1..Len(each.docs) |-> each.docs[i].ID]]
    /\ Goto(t, "FindByIndex_RUnlock")
    /\ UNCHANGED <<indexes, ret, cmu, results, restVars>>

\* the deferred c.Mutex.RUnlock()
CollRUnlock(t) ==
    /\ \E op \in ReaderOps :
           /\ pc[t] = op \o "_RUnlock"
           /\ ret' = Ret(op, loc[t].id, loc[t].err)
    /\ cmu' = [cmu EXCEPT !.readers[t] = @ - 1]
    /\ Goto(t, "idle")
    /\ loc' = [loc EXCEPT ![t] = NoLocals[t]]
    /\ UNCHANGED <<st, indexes, results, restVars>>

\* DB.Query that takes the lock of the collection for reading before it scans
QueryScan_UnderCollectionLock(t) ==
    /\ pc[t] = "Query_first"
    /\ cmu.w = 0
    /\ \E ord \in Orderings(IDs) :
           LET r == QueryExecutor_Execute(QueryDB, Q(<<"*">>, <<>>, -1, 0), ord, {}, FALSE)
           IN  /\ results' = r.rows
               /\ ret' = Ret("Query", "", r.err)
               /\ st' = r.DB[CollNames[1]]
    /\ Goto(t, "idle")
    /\ UNCHANGED <<indexes, loc, cmu, restVars>>

\* DB.Query: db.Executor.Execute(query), which lists the backend of the collection
QueryScan(t) ==
    /\ pc[t] = "Query_first"
    /\ \E ord \in Orderings(IDs) :
           LET r == QueryExecutor_Execute(QueryDB, Q(<<"*">>, <<>>, -1, 0), ord, {}, FALSE)
           IN  /\ results' = r.rows
               /\ ret' = Ret("Query", "", r.err)
               /\ st' = r.DB[CollNames[1]]
    /\ Goto(t, "idle")
    /\ UNCHANGED <<indexes, loc, cmu, restVars>>

CollCall(t) ==
    \/ CallWithDoc(t)
    \/ CallWithId(t)
    \/ CallOther(t)
    \/ CallQuery(t)

CollStep(t) ==
    \/ CollLock(t)
    \/ CollLockWait(t)
    \/ CollRLock(t)
    \/ CollRLockWait(t)
    \/ InsertSave(t)
    \/ AddToIndexes(t)
    \/ UpdateRemove(t)
    \/ UpdateSave(t)
    \/ DeleteFromIndexes(t)
    \/ DeleteStorage(t)
    \/ CreateIndexRegister(t)
    \/ CreateIndexFill(t)
    \/ DropIndexDelete(t)
    \/ CollUnlock(t)
    \/ GetDocumentRead(t)
    \/ ListRead(t)
    \/ FindSearch(t)
    \/ FindGet(t)
    \/ CollRUnlock(t)
    \/ QueryScan(t)

NextColl == \E t \in Threads : CollCall(t) \/ CollStep(t)

SpecColl == InitColl /\ [][NextColl]_vars

----------------------------------------------------------------------------
(* Vocabulary of the properties. *)

\* the positions of a node sequence, summed or maximised over a whole tree
RECURSIVE Occurrences(_, _)
Occurrences(node, id) ==
    LET here == Cardinality({i \in 1..Len(node.Values) : id \in Range(node.Values[i])})
        RECURSIVE below(_)
        below(i) == IF i > Len(node.Children) THEN 0
                    ELSE Occurrences(node.Children[i], id) + below(i + 1)
    IN  here + below(1)

RECURSIVE MaxNodeKeys(_)
MaxNodeKeys(node) ==
    LET RECURSIVE below(_)
        below(i) == IF i > Len(node.Children) THEN 0
                    ELSE LET m == MaxNodeKeys(node.Children[i])
                             r == below(i + 1)
                         IN  IF m > r THEN m ELSE r
    IN  IF Len(node.Keys) > below(1) THEN Len(node.Keys) ELSE below(1)

\* the identifiers of the documents FindByIndex(field, value) returns when no read fails
FoundIds(field, value) ==
    LET r == Collection_FindByIndex(Coll, field, value, {})
    IN  {r.docs[i].ID : i \in 1..Len(r.docs)}

\* the identifiers of the stored documents whose field compares equal to value
HoldingIds(field, value) ==
    {id \in DOMAIN Stored(st) :
        /\ Has(Stored(st)[id].Content, field)
        /\ compare(Stored(st)[id].Content[field], value) = 0}

\* two documents that are the same JSON document (an int and a float64 of the same
\* value are the same JSON number)
SameDoc(a, b) == Marshal(a) = Marshal(b)

\* docs holds exactly the documents of the map m, one per identifier
ExactlyDocs(docs, m) ==
    /\ Len(docs) = Cardinality(DOMAIN m)
    /\ {docs[i].ID : i \in 1..Len(docs)} = DOMAIN m
    /\ \A i \in 1..Len(docs) : SameDoc(docs[i], m[docs[i].ID])

\* after a successful InsertDocument / UpdateDocument of ret.id: in every index the
\* identifier is under exactly one key, the key of its stored field value (under no
\* key when the stored document lacks the field), and FindByIndex finds it under
\* that value alone
IndexedOnce(id) ==
    \A field \in DOMAIN indexes :
        LET content == live[id].Content
            n == Occurrences(indexes[field].Root, id)
        IN  IF Has(content, field)
            THEN /\ n = 1
                 /\ \A v \in InputValues :
                        id \in FoundIds(field, v) <=> compare(content[field], v) = 0
            ELSE n = 0

----------------------------------------------------------------------------
(* Properties of the collection (Spec). *)

\* C1: with an index on field F, after any sequence of InsertDocument /
\* UpdateDocument / DeleteDocument calls, FindByIndex(F, v) returns exactly the
\* documents whose stored value of F compares equal to v.  Stated for a collection
\* over a MemoryStorage, where no disk step can fail and CreateIndex always sees
\* every stored document.
C1_FindByIndexExact ==
    st.kind = "memory" =>
        \A field \in DOMAIN indexes : \A v \in InputValues :
            FoundIds(field, v) = HoldingIds(field, v)

\* C2: after InsertDocument of an identifier (also one that was already stored), the
\* stored content is the inserted one and every index holds exactly one entry for the
\* identifier, under the key of the final value.
C2_InsertTwiceOneEntry ==
    (ret.op = "InsertDocument" /\ ret.err = "") =>
        /\ Has(Stored(st), ret.id)
        /\ SameDoc(Stored(st)[ret.id], live[ret.id])
        /\ IndexedOnce(ret.id)

\* C6: no node of an index tree holds more keys than the order parameter.
C6_NodeWithinOrder ==
    \A field \in DOMAIN indexes :
        MaxNodeKeys(indexes[field].Root) <= indexes[field].Order

\* C9: ListDocuments returns exactly the documents inserted and not deleted since,
\* one per identifier, and Size returns their number (N after N inserts of distinct
\* identifiers, N-1 after one successful delete), when no disk read fails.
C9_ListAndSizeCountLive ==
    \A ord \in ListOrders :
        /\ Collection_ListDocuments(Coll, ord, {}, FALSE).err = ""
        /\ ExactlyDocs(Collection_ListDocuments(Coll, ord, {}, FALSE).docs, live)
        /\ Collection_Size(Coll, ord, {}, FALSE).err = ""
        /\ Collection_Size(Coll, ord, {}, FALSE).n = Cardinality(DOMAIN live)

\* C9 witness: on a FileStorage, where only a stored document can be deleted, a
\* successful DeleteDocument has left one document fewer than there are identifiers,
\* and a document is still stored.
C9_Witness ==
    /\ st.kind = "file"
    /\ ret.op = "DeleteDocument" /\ ret.err = ""
    /\ Cardinality(DOMAIN live) = NumIds - 1
    /\ Cardinality(DOMAIN live) > 0
    /\ ~Has(Stored(st), ret.id)

\* C10: after a successful UpdateDocument the index entry is relocated: the identifier
\* is under exactly one key, FindByIndex finds it under the new value and under no
\* other; under no key when the new version lacks the field.
C10_UpdateRelocates ==
    (ret.op = "UpdateDocument" /\ ret.err = "") => IndexedOnce(ret.id)

\* C15: InsertDocument and UpdateDocument with an empty identifier fail and change
\* neither the backend nor any index; every stored document has a non-empty identifier.
C15_EmptyIdRejected ==
    /\ [](\A id \in DOMAIN Stored(st) : id # "")
    /\ [][(ret'.op \in {"InsertDocument", "UpdateDocument"} /\ ret'.id = "")
              => (ret'.err # "" /\ st' = st /\ indexes' = indexes)]_vars

\* C15 witness: an UpdateDocument with an empty identifier has failed on a collection
\* that holds a document and an index.
C15_Witness ==
    /\ ret.op = "UpdateDocument" /\ ret.id = "" /\ ret.err # ""
    /\ DOMAIN Stored(st) # {}
    /\ DOMAIN indexes # {}

\* the identifiers of the documents FindByIndex(field, value) returns on collection c
\* when no read fails
FoundIn(c, field, value) ==
    LET r == Collection_FindByIndex(c, field, value, {})
    IN  {r.docs[i].ID : i \in 1..Len(r.docs)}

\* the identifiers of the documents of docs whose field compares equal to value
IdsHolding(docs, field, value) ==
    {docs[i].ID : i \in {j \in 1..Len(docs) :
        /\ Has(docs[j].Content, field)
        /\ compare(docs[j].Content[field], value) = 0}}

C17_FindByIndexErrors ==
    \A field \in Fields :
        /\ (Collection_DropIndex(Coll, field).err # "") <=> ~Has(indexes, field)
        /\ \A v \in InputValues, rfails \in FaultSets :
               LET r == Collection_FindByIndex(Coll, field, v, rfails)
                   ids == IF Has(indexes, field)
                          THEN Range(search(indexes[field].Root, v)) ELSE {}
                   got == {r.docs[i].ID : i \in 1..Len(r.docs)}
               IN  /\ (r.err # "") <=> ~Has(indexes, field)
                   /\ r.err = "" =>
                          /\ got \subseteq ids \cap DOMAIN Stored(st)
                          /\ {id \in ids \cap DOMAIN Stored(st) : id \notin rfails}
                                 \subseteq got
                          /\ Len(r.docs) <= Cardinality(ids)

\* C17 witness: a FindByIndex has succeeded while the index maps a value to an
\* identifier that is not stored.
C17_Witness ==
    /\ ret.op = "FindByIndex" /\ ret.err = ""
    /\ \E field \in DOMAIN indexes : \E v \in InputValues :
           \E id \in Range(search(indexes[field].Root, v)) : ~Has(Stored(st), id)

----------------------------------------------------------------------------
(* Properties of the backends (SpecStorage). *)

\* every cache entry is the document on disk under the same identifier
CacheAgreesWithDisk ==
    \A id \in DOMAIN st.Cache :
        /\ Has(st.Files, id)
        /\ Marshal(st.Cache[id]) = st.Files[id]

\* a Save or Delete that returned an error left the cache as it was
FailedWriteKeepsCache ==
    (ret'.op \in {"Save", "Delete"} /\ ret'.err # "") => st'.Cache = st.Cache

C8_DeleteAbsentNotFound ==
    [][(ret'.op = "Delete" /\ ~Has(Stored(st), ret'.id)) =>
           (ret'.err = "notfound" /\ st' = st)]_vars

\* the entries of the directory that Get can load: those in the cache, and those
\* whose file can be read
Loadable(rfails) ==
    {id \in DOMAIN st.Files : (st.UseCache /\ Has(st.Cache, id)) \/ id \notin rfails}

----------------------------------------------------------------------------
(* Properties of the backend's locking (SpecLock). *)

\* the calls in progress
InCall == {t \in Threads : pc[t] # "idle"}

\* C3: no call blocks forever.  If every call in progress is blocked, none of them
\* ever returns (only a call in progress can release the lock), so whenever calls are
\* in progress one of them can take a step.
C3_NoCallBlocksForever ==
    InCall # {} => \E t \in InCall : ENABLED Step(t)

\* the shared object that the next step of goroutine t reads ("r") or writes ("w")
Access(t) ==
    CASE pc[t] \in {"Save_write", "Delete_remove"} -> [obj |-> "Docs", mode |-> "w"]
      [] pc[t] \in {"Get_read", "List_dir"} -> [obj |-> "Docs", mode |-> "r"]
      [] pc[t] \in {"Save_cache", "Delete_cache", "Get_fill"} -> [obj |-> "Cache", mode |-> "w"]
      [] pc[t] = "Get_cache" -> [obj |-> "Cache", mode |-> "r"]
      [] OTHER -> [obj |-> "", mode |-> ""]

\* C4: no two goroutines are at an access to the same shared object of the backend
\* (the documents, the cache map) with one of the accesses a write.
C4_NoConcurrentWrite ==
    \A t1, t2 \in Threads :
        (t1 # t2 /\ Access(t1).obj # "" /\ Access(t1).obj = Access(t2).obj)
            => (Access(t1).mode = "r" /\ Access(t2).mode = "r")

----------------------------------------------------------------------------
(* Properties of the query executor (SpecQuery). *)

\* the query without its window
Unwindowed(q) == [q EXCEPT !.Limit = -1, !.Offset = 0]

\* the rows Execute returns for q when the backend lists its documents in order ord
RowsOf(q, ord) == QueryExecutor_Execute(QueryDB, q, ord, {}, FALSE).rows

\* the window of the claim: drop the first offset rows when 0 < offset < |R|, then
\* keep the first limit rows when 0 <= limit < the remaining count
ClaimWindow(R, offset, limit) ==
    LET dropped == IF 0 < offset /\ offset < Len(R)
                   THEN [i \in 1..(Len(R) - offset) |-> R[i + offset]] ELSE R
    IN  IF 0 <= limit /\ limit < Len(dropped) THEN [i \in 1..limit |-> dropped[i]]
        ELSE dropped

\* C18: the rows a query returns are the window (OFFSET, then LIMIT) of the rows it
\* returns without a window, in the backend's enumeration order.
C18_Windowing ==
    (ret.op = "Query" /\ ret.err = "") =>
        /\ \A ord \in QueryOrders :
               RowsOf(query, ord)
                   = ClaimWindow(RowsOf(Unwindowed(query), ord), query.Offset, query.Limit)
        /\ \E ord \in QueryOrders : results = RowsOf(query, ord)

\* C18 witness: a query with OFFSET 1 and LIMIT 1 over three matching documents has
\* returned one row, the second document of an enumeration.
C18_Witness ==
    /\ ret.op = "Query" /\ ret.err = ""
    /\ query.Offset = 1 /\ query.Limit = 1 /\ query.Where = <<>>
    /\ Cardinality(DOMAIN st.Docs) = 3
    /\ Len(results) = 1

\* the reading of a condition tree in the claim: an AND node holds when all its
\* children hold, an OR node when at least one does, a leaf by the comparison
RECURSIVE Sat(_, _)
Sat(doc, cond) ==
    IF cond.ChildOp = "AND" THEN \A i \in 1..Len(cond.Children) : Sat(doc, cond.Children[i])
    ELSE IF cond.ChildOp = "OR" THEN \E i \in 1..Len(cond.Children) : Sat(doc, cond.Children[i])
    ELSE evalLeaf(doc, cond)

\* every AND / OR node of the tree has at least one child
RECURSIVE NodesHaveChildren(_)
NodesHaveChildren(cond) ==
    /\ cond.ChildOp \in BoolOps => Len(cond.Children) > 0
    /\ \A i \in 1..Len(cond.Children) : NodesHaveChildren(cond.Children[i])

\* the query's condition evaluates on every stored document as the claim reads it,
\* and the query without its window returns one row per document that satisfies it
EvalAgreesWithSat ==
    /\ \A id \in DOMAIN st.Docs :
           evalCondition(st.Docs[id], query.Where[1]) <=> Sat(st.Docs[id], query.Where[1])
    /\ \A ord \in QueryOrders :
           Len(RowsOf(Unwindowed(query), ord))
               = Cardinality({id \in DOMAIN st.Docs : Sat(st.Docs[id], query.Where[1])})

ClaimRow(doc, select) ==
    LET keys == IF select = <<"*">> THEN DOMAIN doc.Content \cup {"_id"}
                ELSE {k \in Range(select) : k = "_id" \/ Has(doc.Content, k)}
    IN  [k \in keys |-> IF k = "_id" THEN IdValue(doc.ID) ELSE doc.Content[k]]

\* C20: exactly one row per document that passes the filter, and each row is the
\* projection of its document: all content fields plus _id for the wildcard, the
\* named fields that exist (plus _id when named) for a field list.
C20_Projection ==
    (ret.op = "Query" /\ ret.err = "") =>
        /\ \A ord \in QueryOrders :
               LET docs == SelectSeq(MemoryStorage_List(st, ord).docs,
                               LAMBDA d : query.Where = <<>> \/ Sat(d, query.Where[1]))
                   rows == RowsOf(Unwindowed(query), ord)
               IN  NodesHaveChildren(IF query.Where = <<>> THEN NodeCond("", <<>>)
                                     ELSE query.Where[1]) =>
                       /\ Len(rows) = Len(docs)
                       /\ \A i \in 1..Len(rows) : rows[i] = ClaimRow(docs[i], query.Select)
        /\ \A i \in 1..Len(results) : \E id \in DOMAIN st.Docs :
               results[i] = ClaimRow(st.Docs[id], query.Select)

\* C20 witness: a query with a field list that names the boolean field, _id and a
\* field no document has has returned a row with the boolean field and a row
\* without it.
C20_Witness ==
    /\ ret.op = "Query" /\ ret.err = ""
    /\ query.Select = <<BoolField, "_id", NoField>>
    /\ \E i, j \in 1..Len(results) :
           /\ DOMAIN results[i] = {BoolField, "_id"}
           /\ DOMAIN results[j] = {"_id"}

----------------------------------------------------------------------------
(* Properties of the registry (SpecDB). *)

\* the calls of the registry that take a collection name
RegistryOps == {"CreateCollection", "GetCollection", "DropCollection"}

\* C13: CreateCollection fails exactly when the name is registered, DropCollection and
\* GetCollection exactly when it is not; a failing call leaves the collection map
\* (with every collection's indexes), the executor's collections and the backends
\* unchanged.
C13_RegistryNameErrors ==
    [][/\ ret'.op = "CreateCollection" =>
              ((ret'.err # "") <=> Has(db.Collections, ret'.id))
       /\ ret'.op \in {"GetCollection", "DropCollection"} =>
              ((ret'.err # "") <=> ~Has(db.Collections, ret'.id))
       /\ (ret'.op \in RegistryOps /\ ret'.err # "") =>
              /\ db' = db
              /\ \A p \in 1..Len(heap) : heap'[p] = heap[p]]_vars

\* C13 witness: a CreateCollection has failed on the name of a collection that holds
\* a document and an index.
C13_Witness ==
    /\ ret.op = "CreateCollection" /\ ret.err # ""
    /\ Has(db.Collections, ret.id)
    /\ heap[db.Collections[ret.id].Storage].Docs # EmptyMap
    /\ db.Collections[ret.id].Indexes # EmptyMap

\* C14: the executor knows exactly the registered names, each bound to the backend of
\* the registered collection, so a Query on a name succeeds exactly when the name is
\* registered and fails with not-found otherwise.
C14_ExecutorFollowsRegistry ==
    /\ DOMAIN db.Executor = DOMAIN db.Collections
    /\ \A n \in DOMAIN db.Collections : db.Executor[n].Storage = db.Collections[n].Storage
    /\ \A name \in Names, ord \in Orderings(IDs) :
           LET r == DB_Query(db, heap, [Q(<<"*">>, <<>>, -1, 0) EXCEPT !.From = name],
                             ord, {}, FALSE)
           IN  IF Has(db.Collections, name)
               THEN /\ r.err = ""
                    /\ Len(r.rows) = Cardinality(DOMAIN CollOf(name).Storage.Docs)
               ELSE r.err = "notfound"
    /\ ret.op = "Query" => ((ret.err = "") <=> Has(db.Collections, ret.id))

\* C14 witness: a Query has failed with not-found on a name that is not registered
\* while a backend that no collection uses holds a document: the collection that
\* stored it was dropped.
C14_Witness ==
    /\ ret.op = "Query" /\ ret.err = "notfound"
    /\ \E p \in 1..Len(heap) :
           /\ heap[p].Docs # EmptyMap
           /\ \A n \in DOMAIN db.Collections : db.Collections[n].Storage # p

\* the registry with every index of every collection dropped
WithoutIndexes(d) ==
    [d EXCEPT !.Collections = [n \in DOMAIN d.Collections |->
                                  [d.Collections[n] EXCEPT !.Indexes = EmptyMap]]]

\* C36: a Query leaves the stored documents of every backend, and the registry with
\* every index of every collection, unchanged, and returns what it returns when the
\* collections have no index.
C36_QueryReadOnly ==
    [][ret'.op = "Query" =>
           /\ Len(heap') = Len(heap)
           /\ \A p \in 1..Len(heap) : Stored(heap'[p]) = Stored(heap[p])
           /\ db' = db
           /\ \E ord \in Orderings(IDs) :
                  LET r == DB_Query(WithoutIndexes(db), heap, query', ord, {}, FALSE)
                  IN  results' = r.rows /\ ret'.err = r.err]_vars

\* C36 witness: a Query with a filter on an indexed field has returned a row.
C36_Witness ==
    /\ ret.op = "Query" /\ ret.err = ""
    /\ query.Where # <<>>
    /\ Has(db.Collections, query.From)
    /\ Has(db.Collections[query.From].Indexes, query.Where[1].Left[1])
    /\ results # <<>>

----------------------------------------------------------------------------
(* Properties of the collection's lock (SpecColl). *)

\* goroutine t is between the first and the last step of a mutation: it holds
\* Collection.Mutex for writing
Mutating(t) ==
    \/ \E op \in MutatorOps : pc[t] \in {op \o "_first", op \o "_Unlock"}
    \/ pc[t] \in {"InsertDocument_index", "UpdateDocument_save", "UpdateDocument_index",
                  "DeleteDocument_storage", "CreateIndex_fill"}

\* goroutine t is inside the critical section of a reader of the collection
Reading(t) ==
    \/ \E op \in ReaderOps : pc[t] \in {op \o "_first", op \o "_RUnlock"}
    \/ pc[t] = "FindByIndex_get"

\* the stored documents that hold the searched value in the indexed field
HoldingNow ==
    {id \in DOMAIN Stored(st) :
        /\ Has(Stored(st)[id].Content, IndexField)
        /\ Stored(st)[id].Content[IndexField] = IndexValue}

\* C11: while a mutation of the collection is between its first and its last step,
\* no other mutation is and no reader is inside its critical section; so what
\* FindByIndex found in the index, and then loaded, is every stored document that
\* holds the value: none that an in-flight mutation has saved and not yet added,
\* or removed from the index and not yet deleted.
C11_MutationsExclusive ==
    /\ \A t \in Threads : \A u \in Threads \ {t} :
           Mutating(t) => (~Mutating(u) /\ ~Reading(u))
    /\ \A t \in Threads :
           pc[t] \in {"FindByIndex_get", "FindByIndex_RUnlock"} /\ loc[t].err = ""
               => Range(loc[t].files) = HoldingNow

\* C11 witness: a FindByIndex has found a stored document in the index while another
\* goroutine, which has called a mutation, waits for the lock.
C11_Witness ==
    \E t \in Threads : \E u \in Threads \ {t} :
        /\ pc[t] = "FindByIndex_get"
        /\ loc[t].files # <<>>
        /\ \E op \in MutatorOps : pc[u] = op \o "_LockWait"
        /\ cmu.w = u /\ ~cmu.active

\* the identifiers of the rows of the last query
ResultIds == {results[i]["_id"] : i \in 1..Len(results)}

\* C12: DB.Query never waits for the lock of the collection: its scan can be taken
\* whoever holds or waits for Collection.Mutex, and it returns one row for every
\* document the backend holds at that moment, those of an in-flight mutation included.
C12_QueryIgnoresCollectionLock ==
    /\ [](\A t \in Threads : pc[t] = "Query_first" => ENABLED QueryScan(t))
    /\ [][\A t \in Threads :
              (pc[t] = "Query_first" /\ pc'[t] = "idle")
                  => ResultIds' = {IdValue(id) : id \in DOMAIN Stored(st)}]_vars

\* C12 witness: a Query has returned the row of a document while the InsertDocument
\* or UpdateDocument that saved it holds the write lock of the collection and has
\* not yet added it to the index.
C12_Witness ==
    /\ ret.op = "Query" /\ ret.err = ""
    /\ \E u \in Threads :
           /\ pc[u] \in {"InsertDocument_index", "UpdateDocument_index"}
           /\ cmu.w = u /\ cmu.active
           /\ Has(Stored(st), loc[u].id)
           /\ Has(indexes, IndexField)
           /\ ~Has(indexes[IndexField].DocIDs, loc[u].id)
           /\ IdValue(loc[u].id) \in ResultIds

----------------------------------------------------------------------------
(* Properties of the comparisons (SpecCompare). *)

\* C21: the executor's compare and the index's compare return the same sign for every
\* pair of values; an integer and a float are compared as floats.
C21_SameComparison ==
    ret.op = "compare" => results[1] = results[2]

\* C33: the index's comparison is a total preorder: compare(a, b) and compare(b, a) have
\* opposite signs, and compare(a, b) <= 0 with compare(b, c) <= 0 implies
\* compare(a, c) <= 0.
C33_TotalPreorder ==
    ret.op = "compare"
        => /\ results[2] = 0 - results[3]
           /\ (results[2] <= 0 /\ results[4] <= 0) => results[5] <= 0

\* the types a comparison puts together: int and float64 are compared as numbers
Kind(v) == IF v.t \in {"int", "float64"} THEN "number" ELSE v.t

\* C34: for a field value and a literal of incomparable types the operators =, >= and
\* <= evaluate to true and !=, > and < to false.
C34_IncomparableAreEqual ==
    (/\ ret.op = "evalCondition"
     /\ Has(results.doc.Content, results.cond.Left[1])
     /\ Kind(results.doc.Content[results.cond.Left[1]]) # Kind(results.cond.Right))
        => (results.match <=> results.cond.Operator \in {"=", ">=", "<="})

\* C34 witness: a string field against an integer literal under =, found true.
C34_Witness ==
    /\ ret.op = "evalCondition"
    /\ Has(results.doc.Content, results.cond.Left[1])
    /\ results.doc.Content[results.cond.Left[1]].t = "string"
    /\ results.cond.Right.t = "int"
    /\ results.cond.Operator = "="
    /\ results.match

\* C35: a leaf condition on a field the document does not have evaluates to false
\* under each of the six operators, != included.
C35_MissingFieldIsFalse ==
    (ret.op = "evalCondition" /\ ~Has(results.doc.Content, results.cond.Left[1]))
        => ~results.match

\* C35 witness: a document without the field, under !=, found not to match.
C35_Witness ==
    /\ ret.op = "evalCondition"
    /\ ~Has(results.doc.Content, results.cond.Left[1])
    /\ results.cond.Operator = "!="
    /\ ~results.match

----------------------------------------------------------------------------
(* Properties of the parser (SpecParse). *)

\* C22: parsing a WHERE text returns a condition or an error: it neither recurses
\* until the stack is exhausted nor panics, whatever the case of the boolean keywords.
C22_ParseReturns ==
    ret.op = "Parse" => ret.err \notin {"overflow", "panic"}

\* C23: the text `field op literal`, for each of the six operators and each literal
\* (quoted string, also one that holds operator characters; true / false; integer;
\* decimal), parses to the leaf (field, op, value of the literal).
C23_LeafParsing ==
    \A i \in 1..Len(LeafOps), lit \in Literals, sp \in Spacings :
        (ret.op = "Parse" /\ query.text = LeafText(ParseField, LeafOps[i], lit.text, sp))
            => /\ results.err = ""
               /\ results.cond = LeafCond(Join(ParseField), Join(LeafOps[i]), lit.val)

\* the parts of a text between the occurrences of a keyword written in any case
RECURSIVE SplitFold(_, _)
SplitFold(s, sep) ==
    LET i == IndexOf(ToUpper(s), sep)
    IN  IF i = 0 THEN <<s>>
        ELSE <<SubSeq(s, 1, i - 1)>> \o SplitFold(SubSeq(s, i + Len(sep), Len(s)), sep)

\* the parse of the text is the node op over the parses of its parts, in their order,
\* or an error when a part is no condition
YieldsNode(text, op, sep) ==
    LET parts == SplitFold(text, sep)
        rs == [i \in 1..Len(parts) |-> parseCondition(parts[i], MaxStack - 1)]
    IN  IF \E i \in 1..Len(parts) : rs[i].err # ""
        THEN results.err # ""
        ELSE /\ results.err = ""
             /\ results.cond = NodeCond(op, [i \in 1..Len(parts) |-> rs[i].cond])

\* C38: a WHERE text with the keyword AND is split on AND first: it parses to an AND
\* node over its AND-separated parts, a part with OR being an OR node; a text with OR
\* alone parses to an OR node over its parts; a text with neither parses as one leaf.
C38_AndBeforeOr ==
    ret.op = "Parse" =>
        LET text == query.text
            and == <<" ", "A", "N", "D", " ">>
            or == <<" ", "O", "R", " ">>
        IN  IF Contains(ToUpper(text), and)
            THEN /\ YieldsNode(text, "AND", and)
                 /\ results.err = "" =>
                        \A i \in 1..Len(results.cond.Children) :
                            Contains(ToUpper(SplitFold(text, and)[i]), or)
                                => results.cond.Children[i].ChildOp = "OR"
            ELSE IF Contains(ToUpper(text), or)
            THEN YieldsNode(text, "OR", or)
            ELSE results = parseLeaf(text)

----------------------------------------------------------------------------
(* Further properties of the collection (Spec). *)

\* C24: after DeleteDocument(id) has returned, with or without an error, no index of
\* the collection holds id under any key.
C24_DeleteClearsIndexes ==
    ret.op = "DeleteDocument"
        => \A field \in DOMAIN indexes : Occurrences(indexes[field].Root, ret.id) = 0

\* C25: an UpdateDocument that fails because the backend could not save leaves the
\* collection as it was: the stored documents are unchanged and FindByIndex finds
\* the same documents under every value.
C25_FailedUpdateChangesNothing ==
    [][(ret'.op = "UpdateDocument" /\ ret'.err = "io")
           => /\ Stored(st') = Stored(st)
              /\ \A field \in Fields, v \in InputValues :
                     FoundIds(field, v)' = FoundIds(field, v)]_vars

\* C26: a CreateIndex that fails for an unknown index type or a failed list of the
\* backend registers no index.
C26_FailedCreateIndexRegistersNothing ==
    [][(ret'.op = "CreateIndex" /\ ret'.err \notin {"", "exists"})
           => DOMAIN indexes' = DOMAIN indexes]_vars

\* the backend holds no document under id, on disk or in its cache
NotStored(id) ==
    /\ ~Has(Stored(st), id)
    /\ st.kind = "file" => ~Has(st.Cache, id)

\* C29: UpdateDocument of a document whose identifier is not stored behaves as an
\* insert: the call succeeds (when the save does), the document is stored, and every
\* index is what idx.Add of the document makes of it, nothing being removed: an
\* index on a field of the document finds it under its value.
C29_UpdateOfAbsentInserts ==
    \A doc \in InputDocs :
        NotStored(doc.ID)
            => LET r == Collection_UpdateDocument(Coll, doc, FALSE, FALSE)
               IN  /\ r.err = ""
                   /\ Has(Stored(r.c.Storage), doc.ID)
                   /\ SameDoc(Stored(r.c.Storage)[doc.ID], doc)
                   /\ \A id \in DOMAIN Stored(st) : Stored(r.c.Storage)[id] = Stored(st)[id]
                   /\ r.c.Indexes = AddAll(indexes, doc)
                   /\ \A field \in DOMAIN indexes :
                          Has(doc.Content, field)
                              => doc.ID \in FoundIn(r.c, field, doc.Content[field])

\* C29 witness: an UpdateDocument has succeeded on the only document of the
\* collection, which an index on its field finds.
C29_Witness ==
    /\ ret.op = "UpdateDocument" /\ ret.err = ""
    /\ DOMAIN Stored(st) = {ret.id}
    /\ \E field \in DOMAIN indexes :
           /\ Has(live[ret.id].Content, field)
           /\ ret.id \in FoundIds(field, live[ret.id].Content[field])

----------------------------------------------------------------------------
(* Properties of the index (SpecIndex). *)

\* the keys of the tree under which id occurs
RECURSIVE KeysOf(_, _)
KeysOf(node, id) ==
    {node.Keys[i] : i \in {j \in 1..Len(node.Keys) : id \in Range(node.Values[j])}}
        \cup UNION {KeysOf(node.Children[i], id) : i \in 1..Len(node.Children)}

\* C30: after any sequence of Add and Remove calls the reverse map agrees with the
\* tree: an identifier is under some key exactly when the reverse map has an entry
\* for it, it is under one key at most, and that key compares equal to the value
\* the reverse map records.
C30_ReverseMapAgrees ==
    \A field \in DOMAIN indexes : \A id \in IDs :
        LET bt == indexes[field]
        IN  /\ (Occurrences(bt.Root, id) > 0) <=> Has(bt.DocIDs, id)
            /\ Occurrences(bt.Root, id) <= 1
            /\ \A k \in KeysOf(bt.Root, id) :
                   Has(bt.DocIDs, id) /\ compare(k, bt.DocIDs[id]) = 0

\* the keys of a node ascend strictly and pair with the identifier lists, and so do
\* those of the nodes under it
RECURSIVE KeysAscend(_)
KeysAscend(node) ==
    /\ Len(node.Keys) = Len(node.Values)
    /\ \A i \in 1..(Len(node.Keys) - 1) : compare(node.Keys[i], node.Keys[i + 1]) < 0
    /\ \A i \in 1..Len(node.Keys) : \A j \in 1..Len(node.Keys) :
           i # j => compare(node.Keys[i], node.Keys[j]) # 0
    /\ \A i \in 1..Len(node.Children) : KeysAscend(node.Children[i])

\* C31: after any sequence of Add and Remove calls the keys of the tree are strictly
\* ascending under the index's comparison (each key less than the next, no two keys
\* equal) and there are as many identifier lists as keys.
C31_KeysStrictlyAscending ==
    \A field \in DOMAIN indexes : KeysAscend(indexes[field].Root)

\* C31 witness: a Remove has left two keys or more in the tree.
C31_Witness ==
    /\ ret.op = "Remove"
    /\ \E field \in DOMAIN indexes : Len(indexes[field].Root.Keys) >= 2

\* every key of the node, and of the nodes under it, has identifiers, each once
RECURSIVE SetsProper(_)
SetsProper(node) ==
    /\ \A i \in 1..Len(node.Values) :
           /\ node.Values[i] # <<>>
           /\ \A j \in 1..Len(node.Values[i]) : \A k \in 1..Len(node.Values[i]) :
                  j # k => node.Values[i][j] # node.Values[i][k]
    /\ \A i \in 1..Len(node.Children) : SetsProper(node.Children[i])

\* C32: after any sequence of Add and Remove calls every key of the tree has a
\* non-empty list of identifiers in which no identifier occurs twice: Add does not
\* repeat an identifier already under the value, and Remove of the last identifier of
\* a value deletes the key.
C32_IdentifierSetsProper ==
    \A field \in DOMAIN indexes : SetsProper(indexes[field].Root)

\* C32 witness: an Add has put a second identifier under a key.
C32_Witness ==
    /\ ret.op = "Add"
    /\ \E field \in DOMAIN indexes :
           \E i \in 1..Len(indexes[field].Root.Values) :
               Len(indexes[field].Root.Values[i]) >= 2


----------------------------------------------------------------------------
(* The whole API, concurrently, with the in-memory backend (SpecApi): the   *)
(* calls of DB and of Collection run by goroutines in steps, under the      *)
(* three mutexes they take: DB.Mutex (dmu), Collection.Mutex (cmu) and      *)
(* MemoryStorage.Mutex (rw).  pc[t] is the rest of the call of goroutine t: *)
(* the lock operations and the accesses it has yet to run, <<>> between     *)
(* calls.  The goroutines hold the collection CollNames[1] from an earlier  *)
(* GetCollection; its backend is st, which the registry names by position   *)
(* 1.  The calls take one document, PresetDoc, and one field, IndexField.   *)
(* What a call returns is not recorded: ret stays as it is.                 *)

\* one step of a call: k is Lock, RLock, Unlock, RUnlock or do; a is the mutex, or
\* the access done
I(k, a) == [k |-> k, a |-> a]

ApiName == CollNames[1]

\* the backend's methods, each under MemoryStorage.Mutex
msSave == <<I("Lock", "ms"), I("do", "Save"), I("Unlock", "ms")>>

msGet == <<I("RLock", "ms"), I("do", "Get"), I("RUnlock", "ms")>>

msDelete == <<I("Lock", "ms"), I("do", "Delete"), I("Unlock", "ms")>>

msList == <<I("RLock", "ms"), I("do", "List"), I("RUnlock", "ms")>>

\* a List that calls Get for each document while it holds the read lock, as
\* FileStorage.List does
msList_ViaGet == <<I("RLock", "ms"), I("do", "List")>> \o msGet \o <<I("RUnlock", "ms")>>

\* a method of DB or of Collection: the mutex taken on entry, released by defer
UnderLock(m, body) == <<I("Lock", m)>> \o body \o <<I("Unlock", m)>>

UnderRLock(m, body) == <<I("RLock", m)>> \o body \o <<I("RUnlock", m)>>

ApiOps == {"CreateCollection", "GetCollection", "DropCollection", "Query",
           "InsertDocument", "GetDocument", "UpdateDocument", "DeleteDocument",
           "CreateIndex", "DropIndex", "FindByIndex", "ListDocuments", "Size"}

\* the steps of a call that returns no early error; list is the backend's List
StepsOf(op, list) ==
    CASE op = "CreateCollection" -> UnderLock("db", <<I("do", "register")>>)
      [] op = "GetCollection"    -> UnderRLock("db", <<I("do", "lookup")>>)
      [] op = "DropCollection"   -> UnderLock("db", <<I("do", "drop")>>)
      [] op = "Query"            -> UnderRLock("db", <<I("do", "Execute")>> \o list)
      [] op = "InsertDocument"   -> UnderLock("c", msSave \o <<I("do", "Add")>>)
      [] op = "GetDocument"      -> UnderRLock("c", msGet)
      [] op = "UpdateDocument"   -> UnderLock("c", msGet \o <<I("do", "RemoveOld")>>
                                                      \o msSave \o <<I("do", "Add")>>)
      [] op = "DeleteDocument"   -> UnderLock("c", <<I("do", "Remove")>> \o msDelete)
      [] op = "CreateIndex"      -> UnderLock("c", <<I("do", "newIndex")>> \o list
                                                      \o <<I("do", "fill")>>)
      [] op = "DropIndex"        -> UnderLock("c", <<I("do", "dropIndex")>>)
      [] op = "FindByIndex"      -> UnderRLock("c", <<I("do", "Search")>>)
      [] op = "ListDocuments"    -> UnderRLock("c", list)
      [] op = "Size"             -> UnderRLock("c", list)

\* the steps with the backend whose List calls Get under its own read lock
Script_ListViaGet(op) == StepsOf(op, msList_ViaGet)

Script(op) == StepsOf(op, msList)

\* a goroutine's locals: the call, the document Get returned, the documents List
\* returned, the identifiers Search returned, the error to return
ApiLocals == [t \in Threads |-> [op |-> "", old |-> NoDoc, docs |-> <<>>, ids |-> <<>>,
                                 err |-> ""]]

InitApi ==
    /\ st = NewMemoryStorage
    /\ indexes = EmptyMap
    /\ ret = NoRet
    /\ live = EmptyMap
    /\ pc = [t \in Threads |-> <<>>]
    /\ rw = NoLock
    /\ cmu = NoLock
    /\ dmu = NoLock
    /\ loc = ApiLocals
    /\ db = DB_CreateCollection(NoDB, ApiName, 1).db
    /\ heap = <<>>
    /\ query = NoQuery
    /\ results = <<>>

apiRest == <<live, heap, query, results>>

Mutex(m) == CASE m = "db" -> dmu [] m = "c" -> cmu [] m = "ms" -> rw

SetMutex(m, v) ==
    /\ dmu' = IF m = "db" THEN v ELSE dmu
    /\ cmu' = IF m = "c" THEN v ELSE cmu
    /\ rw' = IF m = "ms" THEN v ELSE rw

\* the step a goroutine is at
At(t, k) == pc[t] # <<>> /\ Head(pc[t]).k = k

\* the deferred unlock is done: the call returns and its locals are gone
Return(t) ==
    /\ pc' = [pc EXCEPT ![t] = Tail(pc[t])]
    /\ loc' = IF Tail(pc[t]) = <<>> THEN [loc EXCEPT ![t] = ApiLocals[t]] ELSE loc

ApiCall(t) ==
    /\ pc[t] = <<>>
    /\ \E op \in ApiOps :
           /\ pc' = [pc EXCEPT ![t] = Script(op)]
           /\ loc' = [loc EXCEPT ![t] = [ApiLocals[t] EXCEPT !.op = op]]
    /\ UNCHANGED <<st, indexes, ret, rw, cmu, dmu, db, apiRest>>

\* RWMutex.Lock: the writer's turn is taken; readers that come later wait
ApiLock(t) ==
    /\ At(t, "Lock")
    /\ LET m == Head(pc[t]).a
       IN  /\ Mutex(m).w = 0
           /\ SetMutex(m, [Mutex(m) EXCEPT !.w = t])
           /\ pc' = [pc EXCEPT ![t] = <<I("LockWait", m)>> \o Tail(pc[t])]
    /\ UNCHANGED <<st, indexes, ret, loc, db, apiRest>>

\* RWMutex.Lock: the readers that hold the mutex have left
ApiLockWait(t) ==
    /\ At(t, "LockWait")
    /\ LET m == Head(pc[t]).a
       IN  /\ \A u \in Threads : Mutex(m).readers[u] = 0
           /\ SetMutex(m, [Mutex(m) EXCEPT !.active = TRUE])
    /\ pc' = [pc EXCEPT ![t] = Tail(pc[t])]
    /\ UNCHANGED <<st, indexes, ret, loc, db, apiRest>>

\* RWMutex.RLock: granted at once unless a writer has taken its turn
ApiRLock(t) ==
    /\ At(t, "RLock")
    /\ LET m == Head(pc[t]).a
       IN  IF Mutex(m).w = 0
           THEN /\ SetMutex(m, [Mutex(m) EXCEPT !.readers[t] = @ + 1])
                /\ pc' = [pc EXCEPT ![t] = Tail(pc[t])]
           ELSE /\ SetMutex(m, [Mutex(m) EXCEPT !.blocked = @ \cup {t}])
                /\ pc' = [pc EXCEPT ![t] = <<I("RLockWait", m)>> \o Tail(pc[t])]
    /\ UNCHANGED <<st, indexes, ret, loc, db, apiRest>>

\* RWMutex.RLock: the writer's Unlock has let the reader in
ApiRLockWait(t) ==
    /\ At(t, "RLockWait")
    /\ t \notin Mutex(Head(pc[t]).a).blocked
    /\ pc' = [pc EXCEPT ![t] = Tail(pc[t])]
    /\ UNCHANGED <<st, indexes, ret, rw, cmu, dmu, loc, db, apiRest>>

\* RWMutex.Unlock: the readers that waited enter
ApiUnlock(t) ==
    /\ At(t, "Unlock")
    /\ LET m == Head(pc[t]).a
       IN  SetMutex(m, [w |-> 0, active |-> FALSE,
                        readers |-> [u \in Threads |->
                                        IF u \in Mutex(m).blocked THEN Mutex(m).readers[u] + 1
                                        ELSE Mutex(m).readers[u]],
                        blocked |-> {}])
    /\ Return(t)
    /\ UNCHANGED <<st, indexes, ret, db, apiRest>>

ApiRUnlock(t) ==
    /\ At(t, "RUnlock")
    /\ LET m == Head(pc[t]).a
       IN  SetMutex(m, [Mutex(m) EXCEPT !.readers[t] = @ - 1])
    /\ Return(t)
    /\ UNCHANGED <<st, indexes, ret, db, apiRest>>

\* the deferred unlock of the call: what is left after an early return
Deferred(t) == <<pc[t][Len(pc[t])]>>

\* the loop of FindByIndex: c.Storage.Get for each identifier found
RECURSIVE Gets(_)
Gets(n) == IF n = 0 THEN <<>> ELSE msGet \o Gets(n - 1)

\* an access between lock operations: the state after it and the steps left
Effect(t, a) ==
    LET same == [st |-> st, indexes |-> indexes, db |-> db, loc |-> loc[t],
                 rest |-> Tail(pc[t])]
    IN  CASE a = "register" ->
               LET r == DB_CreateCollection(db, ApiName, 1)
               IN  [same EXCEPT !.db = r.db, !.loc.err = r.err]
          [] a = "lookup" ->
               [same EXCEPT !.loc.err = DB_GetCollection(db, ApiName).err]
          [] a = "drop" ->
               LET r == DB_DropCollection(db, ApiName)
               IN  [same EXCEPT !.db = r.db, !.loc.err = r.err]
          [] a = "Execute" ->
               IF Has(db.Executor, ApiName) THEN same
               ELSE [same EXCEPT !.loc.err = "notfound", !.rest = Deferred(t)]
          [] a = "Save" ->
               [same EXCEPT !.st = MemoryStorage_Save(st, PresetDoc).s]
          [] a = "Get" ->
               IF loc[t].op = "FindByIndex"
               THEN [same EXCEPT !.loc.old = MemoryStorage_Get(st, Head(loc[t].ids)).doc,
                                 !.loc.ids = Tail(@)]
               ELSE LET got == MemoryStorage_Get(st, PresetDoc.ID)
                    IN  [same EXCEPT !.loc.old = got.doc,
                                     !.loc.err = IF loc[t].op = "GetDocument" THEN got.err
                                                 ELSE @]
          [] a = "Delete" ->
               [same EXCEPT !.st = MemoryStorage_Delete(st, PresetDoc.ID).s]
          [] a = "List" ->
               [same EXCEPT !.loc.docs = MemoryStorage_List(st, IdNames).docs]
          [] a = "Add" ->
               [same EXCEPT !.indexes = AddAll(indexes, PresetDoc)]
          [] a = "RemoveOld" ->
               IF loc[t].old = NoDoc THEN same
               ELSE [same EXCEPT !.indexes = RemoveAll(indexes, loc[t].old.ID)]
          [] a = "Remove" ->
               [same EXCEPT !.indexes = RemoveAll(indexes, PresetDoc.ID)]
          [] a = "newIndex" ->
               IF Has(indexes, IndexField)
               THEN [same EXCEPT !.loc.err = "exists", !.rest = Deferred(t)]
               ELSE [same EXCEPT !.indexes = Put(indexes, IndexField,
                                                 NewBTreeIndex(IndexField, MaxOrder))]
          [] a = "fill" ->
               [same EXCEPT !.indexes[IndexField] = AddDocs(@, loc[t].docs)]
          [] a = "dropIndex" ->
               LET r == Collection_DropIndex([Storage |-> st, Indexes |-> indexes], IndexField)
               IN  [same EXCEPT !.indexes = r.c.Indexes, !.loc.err = r.err]
          [] a = "Search" ->
               IF ~Has(indexes, IndexField) THEN [same EXCEPT !.loc.err = "notfound"]
               ELSE LET found == BTreeIndex_Search(indexes[IndexField], IndexField, IndexValue)
                    IN  [same EXCEPT !.loc.ids = found.ids,
                                     !.rest = Gets(Len(found.ids)) \o Deferred(t)]

ApiDo(t) ==
    /\ At(t, "do")
    /\ LET r == Effect(t, Head(pc[t]).a)
       IN  /\ st' = r.st
           /\ indexes' = r.indexes
           /\ db' = r.db
           /\ loc' = [loc EXCEPT ![t] = r.loc]
           /\ pc' = [pc EXCEPT ![t] = r.rest]
    /\ UNCHANGED <<ret, rw, cmu, dmu, apiRest>>

ApiStep(t) ==
    \/ ApiCall(t)
    \/ ApiLock(t)
    \/ ApiLockWait(t)
    \/ ApiRLock(t)
    \/ ApiRLockWait(t)
    \/ ApiUnlock(t)
    \/ ApiRUnlock(t)
    \/ ApiDo(t)

NextApi == \E t \in Threads : ApiStep(t)

\* a goroutine that can run is run; a writer's turn at a mutex comes (sync.Mutex
\* hands a waiter the lock once it has waited long, whoever else asks)
ApiFairness ==
    \A t \in Threads : WF_vars(ApiStep(t)) /\ SF_vars(ApiLock(t))

SpecApi == InitApi /\ [][NextApi]_vars /\ ApiFairness

----------------------------------------------------------------------------
(* Properties of the concurrent API (SpecApi). *)

Mutexes == {"db", "c", "ms"}

\* the order of the mutexes: registry, collection, backend
Rank(m) == CASE m = "db" -> 1 [] m = "c" -> 2 [] m = "ms" -> 3

\* t holds m, as a reader or as the writer, or has taken the writer's turn
Holds(t, m) == Mutex(m).w = t \/ Mutex(m).readers[t] > 0

\* a goroutine about to acquire a mutex holds only mutexes that come before it
LockOrder ==
    \A t \in Threads :
        (At(t, "Lock") \/ At(t, "RLock"))
            => \A m \in Mutexes : Holds(t, m) => Rank(m) < Rank(Head(pc[t]).a)

Calling == {t \in Threads : pc[t] # <<>>}

\* while calls are in progress, one of them can take a step
NoneStuck == Calling # {} => \E t \in Calling : ENABLED ApiStep(t)

\* C27: with the in-memory backend the concurrent calls of DB and of Collection are
\* deadlock-free: a goroutine acquires the mutexes in the order registry, collection,
\* backend and never one it holds, some call in progress can always take a step, and
\* every call that has started returns.
C27_DeadlockFree ==
    /\ [](LockOrder /\ NoneStuck)
    /\ \A t \in Threads : (pc[t] # <<>>) ~> (pc[t] = <<>>)

\* C27 witness: a Query holds the registry's mutex and reads the backend while another
\* goroutine, the writer of the collection's mutex, has taken the writer's turn at the
\* backend's mutex and waits for the reader to leave.
C27_Witness ==
    /\ Stored(st) # EmptyMap
    /\ \E t \in Threads : \E u \in Threads \ {t} :
           /\ loc[t].op = "Query" /\ dmu.readers[t] > 0 /\ rw.readers[t] > 0
           /\ cmu.w = u /\ cmu.active
           /\ rw.w = u /\ ~rw.active /\ At(u, "LockWait")

----------------------------------------------------------------------------
(* Documents and the maps they share (SpecShare).  A Document is a struct   *)
(* of an identifier and a Go map; copying the struct copies the reference   *)
(* to the map, not the map.  Here heap holds the maps allocated, by         *)
(* reference number, and the Content of a document in the backend (Docs,    *)
(* Cache) or in the caller's variable is a reference; the files of a        *)
(* FileStorage hold the marshalled values.  One caller holds one variable,  *)
(* doc (loc[1].doc), assigned by GetDocument; the collection has no index.  *)
(* A map that nothing refers to any more is dropped from heap.              *)

Caller == CHOOSE t \in Threads : \A u \in Threads : t <= u

\* the document a reference document stands for
Deref(h, doc) == Doc(doc.ID, h[doc.Content])

\* the backend with every document by value: what its reads return
View(s, h) ==
    [s EXCEPT !.Docs = [id \in DOMAIN s.Docs |-> Deref(h, s.Docs[id])],
              !.Cache = [id \in DOMAIN s.Cache |-> Deref(h, s.Cache[id])]]

\* make(map[string]interface{}): the reference of a new map
NewRef(h) ==
    CHOOSE r \in 1..(Cardinality(DOMAIN h) + 1) :
        /\ r \notin DOMAIN h
        /\ \A q \in 1..(Cardinality(DOMAIN h) + 1) : q \notin DOMAIN h => r <= q

\* the maps still referred to by the backend or by the caller's variable d
Collect(s, d, h) ==
    LET used == {s.Docs[id].Content : id \in DOMAIN s.Docs}
                    \cup {s.Cache[id].Content : id \in DOMAIN s.Cache}
                    \cup (IF d = NoDoc THEN {} ELSE {d.Content})
    IN  [r \in (DOMAIN h) \cap used |-> h[r]]

\* Storage.Save of a document whose Content is a reference
Storage_SaveRef(s, h, doc) ==
    IF s.kind = "memory" THEN MemoryStorage_Save(s, doc).s
    ELSE LET written == [s EXCEPT !.Files = Put(s.Files, doc.ID, Marshal(Deref(h, doc)))]
         IN  IF s.UseCache THEN [written EXCEPT !.Cache = Put(s.Cache, doc.ID, doc)]
             ELSE written

\* Storage.Get: the document returned shares its map with Docs or with Cache; only a
\* read of the file makes a new map
Storage_GetRef(s, h, id) ==
    IF s.kind = "memory"
    THEN LET got == MemoryStorage_Get(s, id)
         IN  [s |-> s, h |-> h, err |-> got.err, doc |-> got.doc]
    ELSE IF s.UseCache /\ Has(s.Cache, id)
    THEN [s |-> s, h |-> h, err |-> "", doc |-> s.Cache[id]]
    ELSE IF ~Has(s.Files, id)
    THEN [s |-> s, h |-> h, err |-> "notfound", doc |-> NoDoc]
    ELSE LET doc == Doc(id, NewRef(h))
         IN  [s |-> IF s.UseCache THEN [s EXCEPT !.Cache = Put(s.Cache, id, doc)] ELSE s,
              h |-> Put(h, doc.Content, Unmarshal(s.Files[id]).Content),
              err |-> "", doc |-> doc]

\* the loop of FileStorage.List
RECURSIVE ListRefFrom(_, _, _, _)
ListRefFrom(s, h, files, docs) ==
    IF files = <<>> THEN [s |-> s, h |-> h, docs |-> docs]
    ELSE LET got == Storage_GetRef(s, h, Head(files))
         IN  ListRefFrom(got.s, got.h, Tail(files),
                         IF got.err # "" THEN docs ELSE Append(docs, got.doc))

\* Storage.List
Storage_ListRef(s, h, ord) ==
    IF s.kind = "memory" THEN [s |-> s, h |-> h, docs |-> MemoryStorage_List(s, ord).docs]
    ELSE ListRefFrom(s, h, ReadDir(s), <<>>)

ShareStorages == {NewMemoryStorage, NewFileStorage(EmptyMap, TRUE),
                  NewFileStorage(EmptyMap, FALSE)}

InitShare ==
    /\ st \in ShareStorages
    /\ indexes = EmptyMap
    /\ ret = NoRet
    /\ live = EmptyMap
    /\ pc = [t \in Threads |-> "idle"]
    /\ rw = NoLock
    /\ cmu = NoLock
    /\ dmu = NoLock
    /\ loc = NoLocals
    /\ db = NoDB
    /\ heap = EmptyMap
    /\ query = NoQuery
    /\ results = <<>>

shareRest == <<indexes, pc, rw, cmu, dmu, db>>

\* collection.InsertDocument(storage.Document{ID: id, Content: map[string]interface{}{...}})
ShareInsert ==
    /\ \E d \in LockDocs :
           LET doc == Doc(d.ID, NewRef(heap))
               h == Put(heap, doc.Content, d.Content)
               s == Storage_SaveRef(st, h, doc)
           IN  /\ st' = s
               /\ heap' = Collect(s, loc[Caller].doc, h)
               /\ live' = Put(live, d.ID, d)
               /\ ret' = Ret("InsertDocument", d.ID, "")
    /\ UNCHANGED <<loc, query, results, shareRest>>

\* doc, err := collection.GetDocument(id)
ShareGet ==
    /\ \E id \in IDs :
           LET got == Storage_GetRef(st, heap, id)
               doc == IF got.err = "" THEN got.doc ELSE loc[Caller].doc
           IN  /\ st' = got.s
               /\ loc' = [loc EXCEPT ![Caller].doc = doc]
               /\ heap' = Collect(got.s, doc, got.h)
               /\ results' = IF got.err = "" THEN <<Deref(got.h, got.doc)>> ELSE <<>>
               /\ ret' = Ret("GetDocument", id, got.err)
    /\ UNCHANGED <<live, query, shareRest>>

\* doc.Content[k] = v
ShareSet ==
    /\ loc[Caller].doc # NoDoc
    /\ \E k \in Fields, n \in 1..MaxInt :
           heap' = [heap EXCEPT ![loc[Caller].doc.Content] = Put(@, k, IntV(n))]
    /\ ret' = Ret("Content", loc[Caller].doc.ID, "")
    /\ UNCHANGED <<st, live, loc, query, results, shareRest>>

\* collection.UpdateDocument(doc): Get of the old document, Save of doc
ShareUpdate ==
    /\ loc[Caller].doc # NoDoc
    /\ LET doc == loc[Caller].doc
           old == Storage_GetRef(st, heap, doc.ID)
           s == Storage_SaveRef(old.s, old.h, doc)
       IN  /\ st' = s
           /\ heap' = Collect(s, doc, old.h)
           /\ live' = Put(live, doc.ID, Deref(heap, doc))
           /\ ret' = Ret("UpdateDocument", doc.ID, "")
    /\ UNCHANGED <<loc, query, results, shareRest>>

\* collection.DeleteDocument(id)
ShareDelete ==
    /\ \E id \in IDs :
           LET del == Storage_Delete(st, id, FALSE)
           IN  /\ st' = del.s
               /\ heap' = Collect(del.s, loc[Caller].doc, heap)
               /\ live' = IF del.err = "" THEN Del(live, id) ELSE live
               /\ ret' = Ret("DeleteDocument", id, del.err)
    /\ UNCHANGED <<loc, query, results, shareRest>>

\* collection.ListDocuments()
ShareList ==
    /\ \E ord \in Orderings(IDs) :
           LET ls == Storage_ListRef(st, heap, ord)
           IN  /\ st' = ls.s
               /\ heap' = Collect(ls.s, loc[Caller].doc, ls.h)
               /\ results' = [i \in 1..Len(ls.docs) |-> Deref(ls.h, ls.docs[i])]
               /\ ret' = Ret("ListDocuments", "", "")
    /\ UNCHANGED <<live, loc, query, shareRest>>

\* db.Query("SELECT * FROM c1") with the collection registered on the backend
ShareQuery ==
    /\ \E ord \in Orderings(IDs) :
           LET q == [Q(<<"*">>, <<>>, -1, 0) EXCEPT !.From = CollNames[1]]
               r == QueryExecutor_Execute([n \in {CollNames[1]} |-> View(st, heap)],
                                          q, ord, {}, FALSE)
               ls == Storage_ListRef(st, heap, ord)
           IN  /\ st' = ls.s
               /\ heap' = Collect(ls.s, loc[Caller].doc, ls.h)
               /\ query' = q
               /\ results' = r.rows
               /\ ret' = Ret("Query", "", r.err)
    /\ UNCHANGED <<live, loc, shareRest>>

NextShare ==
    \/ ShareInsert
    \/ ShareGet
    \/ ShareSet
    \/ ShareUpdate
    \/ ShareDelete
    \/ ShareList
    \/ ShareQuery

SpecShare == InitShare /\ [][NextShare]_vars

----------------------------------------------------------------------------
(* Properties of the documents returned (SpecShare). *)

\* the row SELECT * makes of a document, as JSON
RowJ(doc) ==
    LET row == projectRow(doc, Q(<<"*">>, <<>>, -1, 0))
    IN  [k \in DOMAIN row |-> MarshalValue(row[k])]

\* C28: what GetDocument, ListDocuments and Query return is the stored state, the
\* documents as they were when InsertDocument or UpdateDocument last saved them (live):
\* assigning to the content map of a document that GetDocument returned changes
\* nothing of it until UpdateDocument is called with the document.
C28_ReturnedDocumentIndependent ==
    /\ (ret.op = "GetDocument" /\ ret.err = "")
           => Has(live, ret.id) /\ SameDoc(results[1], live[ret.id])
    /\ ret.op = "ListDocuments" => ExactlyDocs(results, live)
    /\ (ret.op = "Query" /\ ret.err = "")
           => /\ Len(results) = Cardinality(DOMAIN live)
              /\ \A id \in DOMAIN live :
                     \E i \in 1..Len(results) :
                         [k \in DOMAIN results[i] |-> MarshalValue(results[i][k])]
                             = RowJ(live[id])

----------------------------------------------------------------------------
(* SpecCache: two FileStorage values over directories with the same files,  *)
(* one made with useCache true (st.on) and one with useCache false          *)
(* (st.off), given the same calls with the same failing disk steps.         *)
(* results holds what the last call returned from each.                     *)

Outcome(r, docs) == [err |-> r.err, docs |-> docs]

Both(on, off, docsOn, docsOff) ==
    /\ st' = [on |-> on.s, off |-> off.s]
    /\ results' = [on |-> Outcome(on, docsOn), off |-> Outcome(off, docsOff)]

InitCache ==
    /\ \E dir \in InitDirs :
           st = [on |-> NewFileStorage(dir, TRUE), off |-> NewFileStorage(dir, FALSE)]
    /\ indexes = EmptyMap
    /\ ret = NoRet
    /\ live = EmptyMap
    /\ pc = [t \in Threads |-> "idle"]
    /\ rw = NoLock
    /\ cmu = NoLock
    /\ dmu = NoLock
    /\ loc = NoLocals
    /\ db = NoDB
    /\ heap = EmptyMap
    /\ query = NoQuery
    /\ results = [on |-> Outcome([err |-> ""], <<>>), off |-> Outcome([err |-> ""], <<>>)]

cacheRest == <<indexes, live, pc, rw, cmu, dmu, loc, db, heap, query>>

CacheSave ==
    \E doc \in StorageDocs, wfail \in BOOLEAN :
        /\ Both(FileStorage_Save(st.on, doc, wfail), FileStorage_Save(st.off, doc, wfail),
                <<>>, <<>>)
        /\ ret' = Ret("Save", doc.ID, "")
        /\ UNCHANGED cacheRest

CacheGet ==
    \E id \in IDs, rfail \in BOOLEAN :
        LET on == FileStorage_Get(st.on, id, rfail)
            off == FileStorage_Get(st.off, id, rfail)
        IN  /\ Both(on, off, <<on.doc>>, <<off.doc>>)
            /\ ret' = Ret("Get", id, "")
            /\ UNCHANGED cacheRest

CacheDelete ==
    \E id \in IDs, wfail \in BOOLEAN :
        /\ Both(FileStorage_Delete(st.on, id, wfail), FileStorage_Delete(st.off, id, wfail),
                <<>>, <<>>)
        /\ ret' = Ret("Delete", id, "")
        /\ UNCHANGED cacheRest

CacheList ==
    \E rfails \in SUBSET IDs, dirFail \in BOOLEAN :
        LET on == FileStorage_List(st.on, rfails, dirFail)
            off == FileStorage_List(st.off, rfails, dirFail)
        IN  /\ Both(on, off, on.docs, off.docs)
            /\ ret' = Ret("List", "", "")
            /\ UNCHANGED cacheRest

NextCache ==
    \/ CacheSave
    \/ CacheGet
    \/ CacheDelete
    \/ CacheList

SpecCache == InitCache /\ [][NextCache]_vars

----------------------------------------------------------------------------
(* Properties of the cache (SpecCache). *)

\* C37: the cache is transparent: after every sequence of Save, Get, Delete and List
\* calls, with disk steps that may fail, the store with the cache returns the same
\* documents and the same error as the store without it.
C37_CacheTransparent == results.on = results.off

====
